---------------------------- MODULE Spec2Model ----------------------------
(***************************************************************************)
(* A model of bookModifier.py: the filename grammar (withoutAuthors,       *)
(* renameBook), the three cleanup passes, author restoration, substring    *)
(* removal, the undo ledger and restoreOld, run from the menu loop over a  *)
(* directory of files.                                                     *)
(*                                                                         *)
(* A filename is a sequence of one-character strings, so that the regular  *)
(* expressions of the source can be computed character by character.       *)
(***************************************************************************)
EXTENDS Integers, Sequences, FiniteSets, TLC

(***************************************************************************)
(* Characters and the character classes of Python's re module.             *)
(***************************************************************************)
UpperLetters ==
    <<"A", "B", "C", "D", "E", "F", "G", "H", "I", "J", "K", "L", "M",
      "N", "O", "P", "Q", "R", "S", "T", "U", "V", "W", "X", "Y", "Z">>

LowerLetters ==
    <<"a", "b", "c", "d", "e", "f", "g", "h", "i", "j", "k", "l", "m",
      "n", "o", "p", "q", "r", "s", "t", "u", "v", "w", "x", "y", "z">>

Range(f) == {f[i] : i \in DOMAIN f}

\* [A-Za-z]
Letters == Range(UpperLetters) \cup Range(LowerLetters)

\* \d
Digits == {"0", "1", "2", "3", "4", "5", "6", "7", "8", "9"}

\* \s : the space, and the tab as the second whitespace character
Whitespace == {" ", "\t"}

\* \w
WordChars == Letters \cup Digits \cup {"_"}

Punctuation == {",", ".", "-", "_", "'", "(", ")", "!"}

\* . : every character of a filename (a filename holds no line break)
AnyChar == Letters \cup Digits \cup Whitespace \cup Punctuation

\* \S
NonSpace == AnyChar \ Whitespace

\* str.lower() of one character
LowerChar(c) ==
    IF \E i \in DOMAIN UpperLetters : UpperLetters[i] = c
    THEN LowerLetters[CHOOSE i \in DOMAIN UpperLetters : UpperLetters[i] = c]
    ELSE c

\* str.lower()
Lower(s) == [i \in 1..Len(s) |-> LowerChar(s[i])]

(***************************************************************************)
(* Strings.  A fixed-length pattern is a sequence of character classes; a  *)
(* literal is a sequence of characters.                                    *)
(***************************************************************************)
\* the pattern that matches exactly the literal lit
Lit(lit) == [i \in 1..Len(lit) |-> {lit[i]}]

\* re.match of a fixed-length pattern at (1-based) position i of s
MatchAt(s, i, pat) ==
    /\ i >= 1
    /\ i + Len(pat) - 1 <= Len(s)
    /\ \A k \in 1..Len(pat) : s[i + k - 1] \in pat[k]

\* the first position >= from where pat matches, 0 when there is none
FindPat(s, pat, from) ==
    LET hits == {i \in from..Len(s) : MatchAt(s, i, pat)}
    IN  IF hits = {} THEN 0 ELSE CHOOSE i \in hits : \A j \in hits : i <= j

\* re.search(pat, s)
Search(s, pat) == FindPat(s, pat, 1) # 0

\* lit in s
Contains(s, lit) == Search(s, Lit(lit))

\* s[-n:]
LastN(s, n) == IF Len(s) <= n THEN s ELSE SubSeq(s, Len(s) - n + 1, Len(s))

\* s[:-n] for n >= 1
DropLast(s, n) == IF Len(s) <= n THEN <<>> ELSE SubSeq(s, 1, Len(s) - n)

\* s[from:] with from 1-based
From(s, from) == SubSeq(s, from, Len(s))

RECURSIVE SubAllFrom(_, _, _, _)
SubAllFrom(s, pat, rep, from) ==
    LET i == FindPat(s, pat, from)
    IN  IF i = 0 \/ Len(pat) = 0
        THEN From(s, from)
        ELSE SubSeq(s, from, i - 1) \o rep \o SubAllFrom(s, pat, rep, i + Len(pat))

\* re.sub(pat, rep, s): every non-overlapping match, left to right
SubAll(s, pat, rep) == SubAllFrom(s, pat, rep, 1)

\* re.sub(pat, rep, s, 1)
SubFirst(s, pat, rep) ==
    LET i == FindPat(s, pat, 1)
    IN  IF i = 0 THEN s
        ELSE SubSeq(s, 1, i - 1) \o rep \o From(s, i + Len(pat))

\* the position of the last "." of s, 0 when there is none
LastDot(s) ==
    LET dots == {i \in 1..Len(s) : s[i] = "."}
    IN  IF dots = {} THEN 0 ELSE CHOOSE i \in dots : \A j \in dots : j <= i

(***************************************************************************)
(* The filename grammar: withoutAuthors and renameBook.                    *)
(***************************************************************************)
\* \s-\s
Separator == <<Whitespace, {"-"}, Whitespace>>

\* re.sub(pattern1, "", book, 1) with pattern1 = .+?\s-\s : the lazy .+? needs
\* one character, so the first separator at position 2 or later ends the match
SubPattern1(book) ==
    LET j == FindPat(book, Separator, 2)
    IN  IF j = 0 THEN book ELSE From(book, j + 3)

\* the first position after i that holds no underscore
RunEnd(s, i) ==
    LET rest == {t \in i..Len(s) : s[t] # "_"}
    IN  IF rest = {} THEN Len(s) + 1 ELSE CHOOSE t \in rest : \A u \in rest : t <= u

\* where _+\s.+(?=\.) matches first: a run of underscores, a whitespace
\* character, and at least one character before the last "."; 0 when nowhere
SubtitleStart(s) ==
    LET starts == {i \in 1..Len(s) :
                     /\ s[i] = "_"
                     /\ RunEnd(s, i) <= Len(s)
                     /\ s[RunEnd(s, i)] \in Whitespace
                     /\ LastDot(s) >= RunEnd(s, i) + 2}
    IN  IF starts = {} THEN 0 ELSE CHOOSE i \in starts : \A j \in starts : i <= j

\* re.sub(pattern2, "", s, 1) with pattern2 = _+\s.+(?=\.) : the greedy .+ runs
\* up to the last "."
SubPattern2(s) ==
    LET i == SubtitleStart(s)
    IN  IF i = 0 THEN s ELSE SubSeq(s, 1, i - 1) \o From(s, LastDot(s))

\* the trailing-article tests in the order of the source: the article and the
\* length of the tail of the name that is searched
EnglishArticles ==
    << [art |-> <<"A">>,           win |-> 9],
       [art |-> <<"A", "n">>,      win |-> 10],
       [art |-> <<"T", "h", "e">>, win |-> 11] >>

OtherArticles ==
    << [art |-> <<"E", "l">>,           win |-> 10],
       [art |-> <<"L", "a">>,           win |-> 10],
       [art |-> <<"L", "o", "s">>,      win |-> 11],
       [art |-> <<"L", "a", "s">>,      win |-> 11],
       [art |-> <<"U", "n">>,           win |-> 10],
       [art |-> <<"U", "n", "a">>,      win |-> 11],
       [art |-> <<"U", "n", "o", "s">>, win |-> 12],
       [art |-> <<"U", "n", "a", "s">>, win |-> 12],
       [art |-> <<"L", "e">>,           win |-> 10],
       [art |-> <<"L", "'">>,           win |-> 10],
       [art |-> <<"L", "e", "s">>,      win |-> 11],
       [art |-> <<"U", "n", "e">>,      win |-> 11],
       [art |-> <<"D", "e", "s">>,      win |-> 11],
       [art |-> <<"D", "e", "r">>,      win |-> 11],
       [art |-> <<"D", "i", "e">>,      win |-> 11],
       [art |-> <<"D", "a", "s">>,      win |-> 11],
       [art |-> <<"E", "i", "n">>,      win |-> 11],
       [art |-> <<"E", "i", "n", "e">>, win |-> 12] >>

\* ArticleHit with the pattern r".+(, Art)", the "\." after the article left out
ArticleHitNoDot(s, e) ==
    FindPat(LastN(s, e.win), Lit(<<",", " ">> \o e.art), 2) # 0

\* re.search(r".+(, Art)\.", s[-win:]) : ", Art." with a literal space, at the
\* second position of the tail or later
ArticleHit(s, e) ==
    FindPat(LastN(s, e.win), Lit(<<",", " ">> \o e.art \o <<".">>), 2) # 0

\* the first branch of the if/elif chain that is taken, 0 for the else branch
FirstBranch(s, table) ==
    LET hits == {k \in DOMAIN table : ArticleHit(s, table[k])}
    IN  IF hits = {} THEN 0 ELSE CHOOSE k \in hits : \A j \in hits : k <= j

\* ,\sArt\.
CommaArticleDot(art) == <<{","}, Whitespace>> \o Lit(art) \o <<{"."}>>

\* re.sub(pattern, "", re.sub(",\sArt\.", ".", s), 1)
DropArticleAndSubtitle(s, art) ==
    SubPattern2(SubAll(s, CommaArticleDot(art), <<".">>))

\* withoutAuthors: the name after the first rename
NoAuthor(book) == SubPattern1(book)

\* TitleOf without the re.sub that drops the ", Art" it moved to the front
TitleOfKeepArticle(noauthor) ==
    LET k == FirstBranch(noauthor, EnglishArticles)
    IN  IF k = 0
        THEN SubPattern2(noauthor)
        ELSE EnglishArticles[k].art \o <<" ">> \o SubPattern2(noauthor)

\* withoutAuthors: the value of new before the test of its last character
TitleOf(noauthor) ==
    LET k == FirstBranch(noauthor, EnglishArticles)
    IN  IF k = 0
        THEN SubPattern2(noauthor)
        ELSE EnglishArticles[k].art \o <<" ">>
                 \o DropArticleAndSubtitle(noauthor, EnglishArticles[k].art)

\* withoutAuthors: new[:-1] when new ends with an underscore (new is not empty)
StripUnderscore(new) == IF new[Len(new)] = "_" THEN DropLast(new, 1) ELSE new

\* strip-to-title: the name withoutAuthors gives a file when every rename succeeds
StripToTitle(book) == StripUnderscore(TitleOf(NoAuthor(book)))

RenameBookArticles == EnglishArticles \o OtherArticles

\* renameBook(book, pattern), pattern being the subtitle pattern of withAuthors
renameBook(book) ==
    LET k == FirstBranch(book, RenameBookArticles)
    IN  IF k = 0
        THEN SubPattern2(book)
        ELSE SubFirst(DropArticleAndSubtitle(book, RenameBookArticles[k].art),
                      Separator,
                      <<" ", "-", " ">> \o RenameBookArticles[k].art \o <<" ">>)

\* .kepub and .epub
Kepub == <<".", "k", "e", "p", "u", "b">>

Epub == <<".", "e", "p", "u", "b">>

\* withAuthors: to_rename[old]
ToRename(book) ==
    IF Contains(book, Kepub)
    THEN SubAll(renameBook(SubAll(book, Lit(Kepub), <<>>)), Lit(Epub), Kepub \o Epub)
    ELSE renameBook(book)

\* strip-subtitle-only: the name withAuthors gives a file when its rename
\* succeeds: to_rename[old], without its last character when that is "_"
StripSubtitleOnly(book) ==
    IF ToRename(book) = <<>> THEN <<>> ELSE StripUnderscore(ToRename(book))

(***************************************************************************)
(* The name rewriting of the three cleanup passes.                         *)
(***************************************************************************)
Mobi == <<".", "m", "o", "b", "i">>

Pdf == <<".", "p", "d", "f">>

\* removeMultipleSpacing: the loop "while True: if book[-k] == " ": book =
\* book[:-k] + book[-(k-1):] else: break"; book[-k] of a name shorter than k
\* raises IndexError
RECURSIVE TrimSpaceAt(_, _)
TrimSpaceAt(book, k) ==
    IF Len(book) < k
    THEN [name |-> book, err |-> "IndexError"]
    ELSE IF book[Len(book) - k + 1] = " "
         THEN TrimSpaceAt(DropLast(book, k) \o LastN(book, k - 1), k)
         ELSE [name |-> book, err |-> "none"]

\* removeMultipleSpacing: the name after the end-spacing loops
EndSpacing(book) ==
    IF Contains(Lower(book), Epub) \/ Contains(Lower(book), Mobi)
    THEN TrimSpaceAt(book, 6)
    ELSE IF Contains(Lower(book), Pdf)
         THEN TrimSpaceAt(book, 5)
         ELSE [name |-> book, err |-> "none"]

\* the end of the run of whitespace that starts at position i
RECURSIVE SpaceRunEnd(_, _)
SpaceRunEnd(s, i) ==
    IF i <= Len(s) /\ s[i] \in Whitespace THEN SpaceRunEnd(s, i + 1) ELSE i

\* re.sub(r"\s{2,}", " ", s) from position i on
RECURSIVE CollapseFrom(_, _)
CollapseFrom(s, i) ==
    IF i > Len(s) THEN <<>>
    ELSE IF SpaceRunEnd(s, i) >= i + 2
         THEN <<" ">> \o CollapseFrom(s, SpaceRunEnd(s, i))
         ELSE <<s[i]>> \o CollapseFrom(s, i + 1)

\* re.sub(r"\s{2,}", " ", book)
CollapseSpacing(book) == CollapseFrom(book, 1)

\* re.search(r"\s{2,}", book)
HasMultipleSpacing(book) == Search(book, <<Whitespace, Whitespace>>)

\* fixCommaSpacing: re.search(r"(\s,)", book)
HasSpaceComma(book) == Search(book, <<Whitespace, {","}>>)

\* fixCommaSpacing: re.sub(r"\s,", ",", book)
DropSpaceComma(book) == SubAll(book, <<Whitespace, {","}>>, <<",">>)

\* fixCommaSpacing: re.search(r",\S", book) and not re.search(r",\d", book)
HasCommaNoSpace(book) ==
    Search(book, <<{","}, NonSpace>>) /\ ~Search(book, <<{","}, Digits>>)

\* fixCommaSpacing: re.sub(r",", ", ", book)
SpaceAfterComma(book) == SubAll(book, Lit(<<",">>), <<",", " ">>)

\* fixApostrophes: re.search(r"[A-Za-z]_[A-Za-z]", book)
HasLetterUnderscore(book) == Search(book, <<Letters, {"_"}, Letters>>)

\* Apostrophes with count=1: only the first underscore between letters
ApostrophesFirstOnly(book) ==
    LET k == FindPat(book, <<Letters, {"_"}, Letters>>, 1)
    IN  [i \in 1..Len(book) |-> IF k # 0 /\ i = k + 1 THEN "'" ELSE book[i]]

\* fixApostrophes: re.sub(r"(?<=[A-Za-z])_(?=[A-Za-z])", "'", book)
Apostrophes(book) ==
    [i \in 1..Len(book) |->
        IF /\ book[i] = "_"
           /\ i > 1 /\ book[i - 1] \in Letters
           /\ i < Len(book) /\ book[i + 1] \in Letters
        THEN "'" ELSE book[i]]

(***************************************************************************)
(* The name matching of restoreAuthors and removeSubstring.                *)
(***************************************************************************)
\* restoreAuthors: the test on book1.lower() that guards the assignment of title2
IsBookName(book) ==
    \/ Contains(Lower(book), Epub)
    \/ Contains(Lower(book), Mobi)
    \/ Contains(Lower(book), Pdf)

\* re.findall(r"(.+)\.", book1): the text before the last ".", as a list
Title1(book1) ==
    IF LastDot(book1) >= 2 THEN <<SubSeq(book1, 1, LastDot(book1) - 1)>> ELSE <<>>

\* the end of the run of word characters that starts at position i
RECURSIVE WordRunEnd(_, _)
WordRunEnd(s, i) ==
    IF i <= Len(s) /\ s[i] \in WordChars THEN WordRunEnd(s, i + 1) ELSE i

\* re.findall(r"\.(\w+)", book1)[:1]: the word after the first "." that has one
Extension1(book1) ==
    LET i == FindPat(book1, <<{"."}, WordChars>>, 1)
    IN  IF i = 0 THEN <<>> ELSE <<SubSeq(book1, i + 1, WordRunEnd(book1, i + 1) - 1)>>

\* re.findall(r"\s-\s(.+)\.", book2): the text between the first separator and
\* the last ".", as a list
Title2(book2) ==
    LET j == FindPat(book2, Separator, 1)
    IN  IF j # 0 /\ LastDot(book2) >= j + 4
        THEN <<SubSeq(book2, j + 3, LastDot(book2) - 1)>>
        ELSE <<>>

\* re.findall(r".+\.", book2)[0]: book2 up to and including its last "."
UpToLastDot(book2) == SubSeq(book2, 1, LastDot(book2))

\* book.replace(substring, "", 1)
RemoveFirst(book, substring) == SubFirst(book, Lit(substring), <<>>)

(***************************************************************************)
(* The directory and the ledger.  A directory is a function from the names *)
(* of its files to the files; the ledger (the dict undo) is the sequence   *)
(* of its <<new, old>> items in insertion order.  An operation works on a  *)
(* record st: the platform (os.name), the directory, the ledger, the       *)
(* exception that ended it ("none" while it runs), its counter, the        *)
(* os.rename calls that succeeded, and what it reported.                   *)
(***************************************************************************)
\* the state in which an operation starts
Begin(os, dir, undo) ==
    [os |-> os, dir |-> dir, undo |-> undo, err |-> "none", count |-> 0,
     renamed |-> <<>>, notfound |-> <<>>, kept |-> <<>>, asked |-> 0,
     bound |-> FALSE, title2 |-> <<>>]

\* the directory after the file src got the name dst
Moved(dir, src, dst) ==
    [n \in (DOMAIN dir \ {src}) \cup {dst} |-> IF n = dst THEN dir[src] ELSE dir[n]]

\* os.rename(path + src, path + dst): a missing src raises FileNotFoundError;
\* an existing dst raises FileExistsError on Windows and is replaced elsewhere;
\* the empty name dst is the directory itself
OsRename(st, src, dst) ==
    IF st.err # "none" THEN st
    ELSE IF src \notin DOMAIN st.dir THEN [st EXCEPT !.err = "FileNotFoundError"]
    ELSE IF dst = <<>> THEN [st EXCEPT !.err = "OSError"]
    ELSE IF src = dst THEN [st EXCEPT !.renamed = Append(@, <<src, dst>>)]
    ELSE IF dst \in DOMAIN st.dir /\ st.os = "nt"
         THEN [st EXCEPT !.err = "FileExistsError"]
         ELSE [st EXCEPT !.dir = Moved(st.dir, src, dst),
                         !.renamed = Append(@, <<src, dst>>)]

\* the keys of a dict
Keys(undo) == {undo[i][1] : i \in DOMAIN undo}

\* d[k] = v on an insertion-ordered dict: a known key keeps its place
DictSet(d, k, v) ==
    IF k \in Keys(d)
    THEN [i \in DOMAIN d |-> IF d[i][1] = k THEN <<k, v>> ELSE d[i]]
    ELSE Append(d, <<k, v>>)

\* undo[new] = old
SetUndo(st, new, old) ==
    IF st.err # "none" THEN st ELSE [st EXCEPT !.undo = DictSet(@, new, old)]

\* counter += 1
Counted(st) == IF st.err # "none" THEN st ELSE [st EXCEPT !.count = @ + 1]

\* an exception raised by the operation's own code
Raise(st, e) == IF st.err # "none" THEN st ELSE [st EXCEPT !.err = e]

\* removeMultipleSpacing: the body of "for book in books"
SpacingBook(st, old) ==
    LET e == EndSpacing(old)
        multi == HasMultipleSpacing(e.name)
        book == IF multi THEN CollapseSpacing(e.name) ELSE e.name
        spacing == multi \/ e.name # old
        s1 == IF multi THEN OsRename(st, old, book) ELSE st
    IN  IF e.err # "none" THEN Raise(st, e.err)
        ELSE IF spacing THEN Counted(SetUndo(s1, book, old)) ELSE s1

\* fixCommaSpacing: the body of "for book in books"; both renames start from old
CommaBook(st, old) ==
    LET first == HasSpaceComma(old)
        b1 == IF first THEN DropSpaceComma(old) ELSE old
        s1 == IF first THEN OsRename(st, old, b1) ELSE st
        second == HasCommaNoSpace(b1)
        b2 == IF second THEN SpaceAfterComma(b1) ELSE b1
        s2 == IF second THEN OsRename(s1, old, b2) ELSE s1
    IN  IF first \/ second THEN Counted(SetUndo(s2, b2, old)) ELSE s2

\* fixApostrophes: the body of "for book in books"
ApostropheBook(st, old) ==
    IF HasLetterUnderscore(old)
    THEN SetUndo(Counted(OsRename(st, old, Apostrophes(old))), Apostrophes(old), old)
    ELSE st

\* withoutAuthors: the body of "for book in books": up to three renames, then
\* the ledger entry, written also when the name did not change
WithoutAuthorsBook(st, old) ==
    LET noauthor == NoAuthor(old)
        new == TitleOf(noauthor)
        s1 == OsRename(st, old, noauthor)
        s2 == OsRename(s1, noauthor, new)
    IN  IF s2.err # "none" THEN s2
        ELSE IF new = <<>> THEN Raise(s2, "IndexError")
        ELSE IF new[Len(new)] = "_"
             THEN SetUndo(OsRename(s2, new, DropLast(new, 1)), DropLast(new, 1), old)
             ELSE SetUndo(s2, new, old)

\* removeSubstring: the body of "for book in books"
SubstringBook(st, book, substring) ==
    IF substring = <<>> \/ Contains(book, substring)
    THEN LET new == RemoveFirst(book, substring)
         IN  SetUndo(Counted(OsRename(st, book, new)), new, book)
    ELSE st

(***************************************************************************)
(* The operations: each runs its loop over the working set until the end   *)
(* or until an exception leaves it.                                        *)
(***************************************************************************)
\* one pass of the loop body of the operation op over books[i..]
RECURSIVE ForBooks(_, _, _, _, _)
ForBooks(op, arg, st, books, i) ==
    IF i > Len(books) \/ st.err # "none" THEN st
    ELSE LET next == CASE op = "removeMultipleSpacing" -> SpacingBook(st, books[i])
                       [] op = "fixCommaSpacing" -> CommaBook(st, books[i])
                       [] op = "fixApostrophes" -> ApostropheBook(st, books[i])
                       [] op = "withoutAuthors" -> WithoutAuthorsBook(st, books[i])
                       [] op = "removeSubstring" -> SubstringBook(st, books[i], arg)
         IN  ForBooks(op, arg, next, books, i + 1)

\* the state an operation starts in after undo.clear()
Cleared(st) == [st EXCEPT !.undo = <<>>]

removeMultipleSpacing(st, books) ==
    ForBooks("removeMultipleSpacing", <<>>, Cleared(st), books, 1)

fixCommaSpacing(st, books) ==
    ForBooks("fixCommaSpacing", <<>>, Cleared(st), books, 1)

fixApostrophes(st, books) ==
    ForBooks("fixApostrophes", <<>>, Cleared(st), books, 1)

withoutAuthors(st, books) ==
    ForBooks("withoutAuthors", <<>>, Cleared(st), books, 1)

removeSubstring(st, books, substring) ==
    ForBooks("removeSubstring", substring, Cleared(st), books, 1)

\* withAuthors: the dict to_rename, old -> new, in the order of books
RECURSIVE ToRenameDict(_, _)
ToRenameDict(books, i) ==
    IF i = 0 THEN <<>>
    ELSE DictSet(ToRenameDict(books, i - 1), books[i], ToRename(books[i]))

\* withAuthors: the body of "for old, new in to_rename.items()".  The ledger
\* entry is written before the rename; only the rename of the else branch is
\* tried, and only FileExistsError is caught.  answers are the user's replies to
\* the prompts: the choice "O" keeps the old name, the choice "N" comes with the
\* new filename entered
WithAuthorsItem(st, old, new, answers) ==
    IF new = <<>> THEN Raise(st, "IndexError")
    ELSE IF new[Len(new)] = "_"
    THEN OsRename(SetUndo(st, DropLast(new, 1), old), old, DropLast(new, 1))
    ELSE LET s1 == SetUndo(st, new, old)
             s2 == OsRename(s1, old, new)
         IN  IF s2.err # "FileExistsError" THEN s2
             ELSE LET answer == answers[s1.asked + 1]
                      s3 == [s1 EXCEPT !.asked = @ + 1]
                  IN  IF answer.choice = "O"
                      THEN [s3 EXCEPT !.kept = Append(@, old)]
                      ELSE OsRename(SetUndo(s3, answer.name, old), old, answer.name)

RECURSIVE ForItems(_, _, _, _)
ForItems(st, items, i, answers) ==
    IF i > Len(items) \/ st.err # "none" THEN st
    ELSE ForItems(WithAuthorsItem(st, items[i][1], items[i][2], answers),
                  items, i + 1, answers)

withAuthors(st, books, answers) ==
    LET r == ForItems(Cleared(st), ToRenameDict(books, Len(books)), 1, answers)
    IN  IF r.err # "none" THEN r
        ELSE [r EXCEPT !.count = Len(ToRenameDict(books, Len(books)))]

\* restoreAuthors: the loop "for book2 in books2" for one book1.  title2 is a
\* local of the function: it is assigned only when book1 has a book extension,
\* and keeps its last value otherwise (unbound before the first assignment)
RECURSIVE ForBooks2(_, _, _, _)
ForBooks2(st, book1, books2, j) ==
    IF j > Len(books2) \/ st.err # "none" THEN st
    ELSE LET book2 == books2[j]
             s1 == IF IsBookName(book1)
                   THEN [st EXCEPT !.bound = TRUE, !.title2 = Title2(book2)]
                   ELSE st
         IN  IF ~s1.bound THEN Raise(s1, "UnboundLocalError")
             ELSE IF s1.title2 = <<>> THEN ForBooks2(s1, book1, books2, j + 1)
             ELSE IF Title1(book1) = <<>> THEN Raise(s1, "IndexError")
             ELSE IF Title1(book1)[1] # s1.title2[1]
                  THEN ForBooks2(s1, book1, books2, j + 1)
             ELSE IF LastDot(book2) < 2 \/ Extension1(book1) = <<>>
                  THEN Raise(s1, "IndexError")
             ELSE LET new == UpToLastDot(book2) \o Extension1(book1)[1]
                  IN  Counted(SetUndo(OsRename(s1, book1, new), new, book1))

\* restoreAuthors: "for book1 in books"; the not-found line is printed after
\* the inner loop, whether it broke out of it or ran to its end
RECURSIVE ForBooks1(_, _, _, _)
ForBooks1(st, books, books2, i) ==
    IF i > Len(books) \/ st.err # "none" THEN st
    ELSE LET s1 == ForBooks2(st, books[i], books2, 1)
             s2 == IF s1.err # "none" THEN s1
                   ELSE [s1 EXCEPT !.notfound = Append(@, books[i])]
         IN  ForBooks1(s2, books, books2, i + 1)

restoreAuthors(st, books, books2) == ForBooks1(Cleared(st), books, books2, 1)

\* restoreOld: "for new, old in undo.items()"; FileNotFoundError is caught and
\* reported, any other exception leaves the function
RECURSIVE ForUndo(_, _)
ForUndo(st, i) ==
    IF i > Len(st.undo) \/ st.err # "none" THEN st
    ELSE LET new == st.undo[i][1]
             old == st.undo[i][2]
         IN  IF new \notin DOMAIN st.dir
             THEN ForUndo([st EXCEPT !.notfound = Append(@, new)], i + 1)
             ELSE ForUndo(Counted(OsRename(st, new, old)), i + 1)

restoreOld(st) == ForUndo(st, 1)

(***************************************************************************)
(* The all-pairs matchers compareWithinDir and compareTwoDirs.             *)
(***************************************************************************)
\* re.sub(r"\.\w+", "", s) from position i on: without each "." and the word
\* characters that follow it
RECURSIVE BaseNameFrom(_, _)
BaseNameFrom(s, i) ==
    IF i > Len(s) THEN <<>>
    ELSE IF s[i] = "." /\ WordRunEnd(s, i + 1) > i + 1
         THEN BaseNameFrom(s, WordRunEnd(s, i + 1))
         ELSE <<s[i]>> \o BaseNameFrom(s, i + 1)

BaseName(book) == BaseNameFrom(book, 1)

\* the occurrences of the character c in s
Count(s, c) == Cardinality({i \in DOMAIN s : s[i] = c})

\* SequenceMatcher.quick_ratio: the elements of a that still find a partner in b
QuickMatches(a, b) ==
    Cardinality({i \in DOMAIN a : Count(SubSeq(a, 1, i), a[i]) <= Count(b, a[i])})

\* index == 1, index being 2.0 * matches / (len(a) + len(b)), and 1.0 for two
\* empty names
RatioIsOne(a, b) == 2 * QuickMatches(a, b) = Len(a) + Len(b)

\* index >= 0.9
RatioAtLeastNineTenths(a, b) ==
    \/ Len(a) + Len(b) = 0
    \/ 20 * QuickMatches(a, b) >= 9 * (Len(a) + Len(b))

\* compareWithinDir: the inner loop "for book2 in books" from position j on
RECURSIVE WithinInner(_, _, _, _)
WithinInner(similar, book1, books, j) ==
    IF j > Len(books) THEN similar
    ELSE IF /\ book1 # books[j]
            /\ IsBookName(books[j])
            /\ RatioAtLeastNineTenths(BaseName(book1), BaseName(books[j]))
         THEN WithinInner(Append(similar, <<BaseName(book1), BaseName(books[j])>>),
                          book1, books, j + 1)
         ELSE WithinInner(similar, book1, books, j + 1)

\* compareWithinDir: the outer loop "for book1 in books" from position i on
RECURSIVE WithinOuter(_, _, _)
WithinOuter(similar, books, i) ==
    IF i > Len(books) THEN similar
    ELSE IF IsBookName(books[i])
         THEN WithinOuter(WithinInner(similar, books[i], books, 1), books, i + 1)
         ELSE WithinOuter(similar, books, i + 1)

\* compareWithinDir(path, books): the list similar
compareWithinDir(books) == WithinOuter(<<>>, books, 1)

\* compareTwoDirs: the inner loop "for book2 in books2" from position j on; r
\* holds identical, similar, different and not_found
RECURSIVE TwoDirsInner(_, _, _, _)
TwoDirsInner(r, b1, books2, j) ==
    IF j > Len(books2) THEN r
    ELSE IF ~IsBookName(books2[j]) THEN TwoDirsInner(r, b1, books2, j + 1)
    ELSE IF RatioIsOne(b1, BaseName(books2[j]))
         THEN [r EXCEPT !.identical = Append(@, b1), !.not_found = FALSE]
    ELSE IF RatioAtLeastNineTenths(b1, BaseName(books2[j]))
         THEN TwoDirsInner([r EXCEPT !.similar = Append(@, <<b1, BaseName(books2[j])>>),
                                     !.not_found = FALSE],
                           b1, books2, j + 1)
         ELSE TwoDirsInner(r, b1, books2, j + 1)

\* compareTwoDirs: the outer loop "for book1 in books" from position i on
RECURSIVE TwoDirsOuter(_, _, _, _)
TwoDirsOuter(r, books, books2, i) ==
    IF i > Len(books) THEN r
    ELSE IF ~IsBookName(books[i]) THEN TwoDirsOuter(r, books, books2, i + 1)
    ELSE LET r1 == TwoDirsInner([r EXCEPT !.not_found = TRUE],
                                BaseName(books[i]), books2, 1)
         IN  TwoDirsOuter(IF r1.not_found
                          THEN [r1 EXCEPT !.different = Append(@, BaseName(books[i]))]
                          ELSE r1,
                          books, books2, i + 1)

\* compareTwoDirs(path, books), books2 being the listing of the other directory
compareTwoDirs(books, books2) ==
    TwoDirsOuter([identical |-> <<>>, similar |-> <<>>, different |-> <<>>,
                  not_found |-> TRUE], books, books2, 1)

(***************************************************************************)
(* Numbers typed by the user, and the order of strings.                    *)
(***************************************************************************)
\* the characters of the model in the order of their code points
CodePoints ==
    <<"\t", " ", "!", "'", "(", ")", "+", ",", "-", ".", "/",
      "0", "1", "2", "3", "4", "5", "6", "7", "8", "9">>
        \o UpperLetters \o <<"_">> \o LowerLetters

Ord(c) == CHOOSE i \in DOMAIN CodePoints : CodePoints[i] = c

\* a < b on str
RECURSIVE StrLess(_, _)
StrLess(a, b) ==
    IF b = <<>> THEN FALSE
    ELSE IF a = <<>> THEN TRUE
    ELSE IF a[1] # b[1] THEN Ord(a[1]) < Ord(b[1])
    ELSE StrLess(Tail(a), Tail(b))

IsDigits(s) == \A i \in DOMAIN s : s[i] \in Digits

\* the number a string of digits writes; 0 for the empty string
RECURSIVE Decimal(_)
Decimal(s) ==
    IF s = <<>> THEN 0
    ELSE 10 * Decimal(SubSeq(s, 1, Len(s) - 1)) + (Ord(s[Len(s)]) - Ord("0"))

RECURSIVE PowerOfTen(_)
PowerOfTen(n) == IF n = 0 THEN 1 ELSE 10 * PowerOfTen(n - 1)

\* int(s) for s of digits with an optional sign; everything else is a ValueError
\* (the model's strings hold no other form int() accepts)
ParseInt(s) ==
    LET signed == s # <<>> /\ s[1] \in {"+", "-"}
        digits == IF signed THEN Tail(s) ELSE s
    IN  IF digits # <<>> /\ IsDigits(digits)
        THEN [ok |-> TRUE,
              val |-> IF signed /\ s[1] = "-" THEN 0 - Decimal(digits) ELSE Decimal(digits)]
        ELSE [ok |-> FALSE, val |-> 0]

\* float(s) for s of the form [sign] digits [. digits] with at least one digit:
\* the number num / den; everything else is a ValueError (the model's strings
\* hold no other form float() accepts)
ParseFloat(s) ==
    LET signed == s # <<>> /\ s[1] \in {"+", "-"}
        body == IF signed THEN Tail(s) ELSE s
        dot == FindPat(body, Lit(<<".">>), 1)
        whole == IF dot = 0 THEN body ELSE SubSeq(body, 1, dot - 1)
        frac == IF dot = 0 THEN <<>> ELSE From(body, dot + 1)
    IN  IF IsDigits(whole) /\ IsDigits(frac) /\ Len(whole) + Len(frac) >= 1
        THEN [ok |-> TRUE,
              num |-> (IF signed /\ s[1] = "-" THEN 0 - 1 ELSE 1) * Decimal(whole \o frac),
              den |-> PowerOfTen(Len(frac))]
        ELSE [ok |-> FALSE, num |-> 0, den |-> 1]

(***************************************************************************)
(* The size comparator compareSize.                                        *)
(***************************************************************************)
\* the loop that asks for share, from reply k on: the accepted share, or the
\* ValueError of float() that "except TypeError" does not catch
RECURSIVE AskShare(_, _)
AskShare(replies, k) ==
    IF k > Len(replies) THEN [err |-> "EOFError", num |-> 0, den |-> 1, asked |-> k - 1]
    ELSE LET f == ParseFloat(replies[k])
         IN  IF ~f.ok THEN [err |-> "ValueError", num |-> 0, den |-> 1, asked |-> k]
             ELSE IF f.num >= 0 /\ f.num <= f.den
                  THEN [err |-> "none", num |-> f.num, den |-> f.den, asked |-> k]
                  ELSE AskShare(replies, k + 1)

\* Floating point.  A float holds 53 binary digits; the numbers below are
\* written in digits of base 2^11, the most significant first, which keeps
\* every step within the integers of the model for file sizes below 2^20 and
\* shares of at most five decimals.
Base == 2^11

\* the digits of a natural number
RECURSIVE Limbs(_)
Limbs(n) == IF n = 0 THEN <<>> ELSE Append(Limbs(n \div Base), n % Base)

\* the next n digits of r / den behind the point, and what is left of r
RECURSIVE DigitsFrom(_, _, _)
DigitsFrom(r, den, n) ==
    IF n = 0 THEN [limbs |-> <<>>, rest |-> r]
    ELSE LET d == DigitsFrom((r * Base) % den, den, n - 1)
         IN  [limbs |-> <<(r * Base) \div den>> \o d.limbs, rest |-> d.rest]

\* the binary zeros between the point and the first 1 of num / den, 0 < num < den
LeadingZeros(num, den) ==
    CHOOSE z \in 0..20 : num * 2^z < den /\ num * 2^(z + 1) >= den

\* 55 binary digits rounded to the 53 a float holds, to nearest, ties to even:
\* q holds the 55 digits in five digits of base 2^11 and what is left behind
\* them; the result is the rounded number times 4 (its last digit may be Base)
Rounded(q) ==
    LET low == q.limbs[5] % 4
        up == \/ low = 3
              \/ low = 2 /\ (q.rest # 0 \/ (q.limbs[5] \div 4) % 2 = 1)
    IN  [q.limbs EXCEPT ![5] = @ - low + (IF up THEN 4 ELSE 0)]

\* float(share) for 0 < share = num / den < 1: the number limbs / 2^scale
FloatOf(num, den) ==
    [limbs |-> Rounded(DigitsFrom(num * 2^LeadingZeros(num, den), den, 5)),
     scale |-> 55 + LeadingZeros(num, den)]

\* the number limbs[1..i] times c plus carry
RECURSIVE TimesFrom(_, _, _, _)
TimesFrom(limbs, c, i, carry) ==
    IF i = 0 THEN Limbs(carry)
    ELSE Append(TimesFrom(limbs, c, i - 1, (limbs[i] * c + carry) \div Base),
                (limbs[i] * c + carry) % Base)

\* a <= b on numbers without leading zeros
AtMost(a, b) ==
    \/ Len(a) < Len(b)
    \/ /\ Len(a) = Len(b)
       /\ \/ a = b
          \/ \E i \in DOMAIN a : a[i] < b[i] /\ \A j \in 1..(i - 1) : a[j] = b[j]

\* the binary digits of d >= 1, less one
Log2(d) == CHOOSE l \in 0..20 : 2^l <= d /\ d < 2^(l + 1)

\* 2^scale times the number halfway between the float d and the next float
\* above it, for an integer d >= 1: the floats next to d are 2^(Log2(d) - 52)
\* apart
HalfwayAbove(d, scale) ==
    LET head == Limbs(d * 2^(scale % 11))
        total == Len(head) + scale \div 11
        half == Log2(d) - 53 + scale
    IN  [i \in 1..total |->
            IF i <= Len(head) THEN head[i]
            ELSE IF i = total - half \div 11 THEN 2^(half % 11) ELSE 0]

\* size1 * share <= d in floating point, share being the float f: the product
\* of the two floats is rounded to the nearest float, ties to even, so it is at
\* most the integer d exactly when the product of the numbers is at most the
\* number halfway between d and the next float
ProductAtMost(f, size1, d) ==
    AtMost(TimesFrom(f.limbs, size1, 5, 0), HalfwayAbove(d, f.scale))

\* size1 > size2 and size1 - size2 >= size1 * share, share being
\* float("num / den") with 0 <= num <= den; the shares 0 and 1 are floats
Reported(size1, size2, num, den) ==
    /\ size1 > size2
    /\ \/ num = 0
       \/ num = den /\ size1 - size2 >= size1
       \/ num # 0 /\ num # den /\ ProductAtMost(FloatOf(num, den), size1, size1 - size2)

\* b2 before its first assignment
Unbound == <<"unbound">>

\* compareSize: the search "while True" for book1 over books2[lower..upper];
\* matched lists the pairs that reached the comparison of sizes
RECURSIVE SizeSearch(_, _, _, _, _, _)
SizeSearch(r, book1, env, books2, lower, upper) ==
    LET mid == (lower + upper) \div 2
        b1 == Lower(BaseName(book1))
    IN  IF r.err # "none" \/ lower > upper THEN r
        ELSE IF mid >= Len(books2) THEN [r EXCEPT !.err = "IndexError"]
        ELSE LET book2 == books2[mid + 1]
                 isbook == IsBookName(book2)
                 b2 == IF isbook THEN Lower(BaseName(book2)) ELSE r.b2
             IN  IF b2 = Unbound THEN [r EXCEPT !.err = "UnboundLocalError"]
                 ELSE IF isbook /\ b1 = b2
                      THEN IF book1 \notin DOMAIN env.size1 \/ book2 \notin DOMAIN env.size2
                           THEN [r EXCEPT !.err = "FileNotFoundError", !.b2 = b2]
                           ELSE IF Reported(env.size1[book1], env.size2[book2],
                                            env.num, env.den)
                                THEN [r EXCEPT !.b2 = b2,
                                               !.matched = Append(@, <<book1, book2>>),
                                               !.identical =
                                                   Append(@, <<env.size1[book1],
                                                               env.size2[book2],
                                                               BaseName(book1)>>)]
                                ELSE [r EXCEPT !.b2 = b2,
                                               !.matched = Append(@, <<book1, book2>>)]
                 ELSE IF StrLess(b1, b2)
                      THEN SizeSearch([r EXCEPT !.b2 = b2], book1, env, books2,
                                      lower, mid - 1)
                      ELSE SizeSearch([r EXCEPT !.b2 = b2], book1, env, books2,
                                      mid + 1, upper)

\* compareSize: the loop "for book1 in books" from position i on
RECURSIVE SizeBooks(_, _, _, _, _)
SizeBooks(r, books, env, books2, i) ==
    IF i > Len(books) \/ r.err # "none" THEN r
    ELSE IF ~IsBookName(books[i]) THEN SizeBooks(r, books, env, books2, i + 1)
    ELSE SizeBooks(SizeSearch(r, books[i], env, books2, 0, Len(books2)),
                   books, env, books2, i + 1)

\* (size1, size2, name) > (size1, size2, name) on tuples
TupleGreater(x, y) ==
    \/ x[1] > y[1]
    \/ x[1] = y[1] /\ x[2] > y[2]
    \/ x[1] = y[1] /\ x[2] = y[2] /\ StrLess(y[3], x[3])

\* identical.sort(reverse=True)
RECURSIVE SortedDescending(_)
SortedDescending(s) ==
    IF s = <<>> THEN <<>>
    ELSE LET k == CHOOSE k \in DOMAIN s :
                      \A j \in DOMAIN s :
                          ~TupleGreater(s[j], s[k]) /\ (s[j] = s[k] => k <= j)
         IN  <<s[k]>> \o SortedDescending([j \in 1..Len(s) - 1 |->
                                              IF j < k THEN s[j] ELSE s[j + 1]])

\* compareSize(path, books): replies are the shares typed, books2 the listing of
\* the other directory, size1 and size2 the sizes of the files of the two
\* directories; the list identical as printed, or the exception raised
compareSize(books, replies, books2, size1, size2) ==
    LET share == AskShare(replies, 1)
        env == [size1 |-> size1, size2 |-> size2, num |-> share.num, den |-> share.den]
        r == SizeBooks([identical |-> <<>>, matched |-> <<>>, b2 |-> Unbound,
                        err |-> "none"],
                       books, env, books2, 1)
    IN  IF share.err # "none"
        THEN [identical |-> <<>>, matched |-> <<>>, err |-> share.err,
              asked |-> share.asked, num |-> 0, den |-> 1]
        ELSE [identical |-> SortedDescending(r.identical), matched |-> r.matched,
              err |-> r.err, asked |-> share.asked,
              num |-> share.num, den |-> share.den]

(***************************************************************************)
(* Sorting and selecting: sortBooks and selectBooks.                       *)
(***************************************************************************)
\* the first words sortBooks leaves out of the sorting key of a title
SortArticles ==
    { <<"A">>, <<"A", "n">>, <<"T", "h", "e">>, <<"E", "l">>, <<"L", "a">>,
      <<"L", "o", "s">>, <<"L", "a", "s">>, <<"U", "n">>, <<"U", "n", "a">>,
      <<"U", "n", "o", "s">>, <<"U", "n", "a", "s">>, <<"L", "e">>,
      <<"L", "'">>, <<"L", "e", "s">>, <<"U", "n", "e">>, <<"D", "e", "s">>,
      <<"D", "e", "r">>, <<"D", "i", "e">>, <<"D", "a", "s">>, <<"E", "i", "n">>,
      <<"E", "i", "n", "e">> }

\* re.sub(r".+\s-\s", "", book): the greedy .+ runs to the last separator
SortTitle(book) ==
    LET seps == {j \in 2..Len(book) : MatchAt(book, j, Separator)}
    IN  IF seps = {} THEN book
        ELSE From(book, (CHOOSE j \in seps : \A k \in seps : k <= j) + 3)

\* title.split(): the words of title, in a record with err = "IndexError" for
\* [0] of no word at all
FirstWord(title) ==
    LET starts == {i \in DOMAIN title : title[i] \notin Whitespace}
        first == CHOOSE i \in starts : \A j \in starts : i <= j
        stops == {i \in first..Len(title) : title[i] \in Whitespace}
        stop == IF stops = {} THEN Len(title) + 1
                ELSE CHOOSE i \in stops : \A j \in stops : i <= j
    IN  IF starts = {} THEN [err |-> "IndexError", word |-> <<>>]
        ELSE [err |-> "none", word |-> SubSeq(title, first, stop - 1)]

\* re.sub(r"^\w+\s", "", title)
DropFirstWord(title) ==
    LET others == {i \in DOMAIN title : title[i] \notin WordChars}
        stop == IF others = {} THEN 0 ELSE CHOOSE i \in others : \A j \in others : i <= j
    IN  IF stop >= 2 /\ title[stop] \in Whitespace THEN From(title, stop + 1) ELSE title

\* the key of book in the sorting by title
TitleKey(book) ==
    IF FirstWord(SortTitle(book)).word \in SortArticles
    THEN Lower(DropFirstWord(SortTitle(book)))
    ELSE Lower(SortTitle(book))

\* sorted(pairs, key=lambda s: s[0]) of pairs (key, book): ascending and stable
RECURSIVE SortedByKey(_)
SortedByKey(s) ==
    IF s = <<>> THEN <<>>
    ELSE LET k == CHOOSE k \in DOMAIN s :
                      /\ \A j \in DOMAIN s : ~StrLess(s[j][1], s[k][1])
                      /\ \A j \in 1..k - 1 : s[j][1] # s[k][1]
         IN  <<s[k]>> \o SortedByKey([j \in 1..Len(s) - 1 |->
                                         IF j < k THEN s[j] ELSE s[j + 1]])

\* the loop that asks for the sorting, from reply k on: the sorting chosen
RECURSIVE AskSorting(_, _)
AskSorting(replies, k) ==
    IF k > Len(replies) THEN [err |-> "EOFError", sorting |-> <<>>, asked |-> k - 1]
    ELSE IF Lower(replies[k]) \in {<<"a">>, <<"t">>, <<"d">>, <<"s">>}
         THEN [err |-> "none", sorting |-> Lower(replies[k]), asked |-> k]
         ELSE AskSorting(replies, k + 1)

\* the books of a sorted list of tuples that end in the book
BooksOf(s) == [i \in DOMAIN s |-> s[i][Len(s[i])]]

\* sortBooks(path, books): replies are the sortings typed, mtime and size the
\* st_mtime and st_size of the files of the directory; the date printed for
\* st_mtime sorts as st_mtime does
sortBooks(books, replies, mtime, size) ==
    LET ask == AskSorting(replies, 1)
        stat == IF ask.sorting = <<"d">> THEN mtime ELSE size
    IN  IF ask.err # "none" THEN [err |-> ask.err, books |-> <<>>, asked |-> ask.asked]
        ELSE IF ask.sorting = <<"a">>
        THEN [err |-> "none", asked |-> ask.asked,
              books |-> BooksOf(SortedByKey(
                            [i \in DOMAIN books |-> <<Lower(books[i]), books[i]>>]))]
        ELSE IF ask.sorting = <<"t">>
        THEN IF \E i \in DOMAIN books : FirstWord(SortTitle(books[i])).err # "none"
             THEN [err |-> "IndexError", books |-> <<>>, asked |-> ask.asked]
             ELSE [err |-> "none", asked |-> ask.asked,
                   books |-> BooksOf(SortedByKey(
                                 [i \in DOMAIN books |-> <<TitleKey(books[i]), books[i]>>]))]
        ELSE IF \E i \in DOMAIN books : books[i] \notin DOMAIN stat
        THEN [err |-> "FileNotFoundError", books |-> <<>>, asked |-> ask.asked]
        ELSE [err |-> "none", asked |-> ask.asked,
              books |-> BooksOf(SortedDescending(
                            [i \in DOMAIN books |-> <<stat[books[i]], 0, books[i]>>]))]

\* s.split(sep) for a separator of one character
RECURSIVE Split(_, _)
Split(s, sep) ==
    LET i == FindPat(s, Lit(<<sep>>), 1)
    IN  IF i = 0 THEN <<s>>
        ELSE <<SubSeq(s, 1, i - 1)>> \o Split(From(s, i + 1), sep)

\* the numbers one selection adds to the set numbers: a range from-to for a
\* selection with "-", one number otherwise; ok is FALSE for a ValueError of
\* int() or an IndexError of [1]
NumbersOf(selection) ==
    LET parts == Split(selection, "-")
        from == ParseInt(parts[1])
        to == IF Len(parts) >= 2 THEN ParseInt(parts[2]) ELSE [ok |-> FALSE, val |-> 0]
        one == ParseInt(selection)
    IN  IF Contains(selection, <<"-">>)
        THEN [ok |-> from.ok /\ to.ok, numbers |-> (from.val - 1)..(to.val - 1)]
        ELSE [ok |-> one.ok, numbers |-> {one.val - 1}]

\* the set numbers for what the user typed
Numbers(selected) ==
    LET selections == Split(SubAll(selected, Lit(<<" ">>), <<>>), ",")
    IN  [ok |-> \A i \in DOMAIN selections : NumbersOf(selections[i]).ok,
         numbers |-> UNION {NumbersOf(selections[i]).numbers : i \in DOMAIN selections}]

\* the numbers of a set in the order "for number in numbers" takes them: for
\* the small sets of the model, ascending from 0, and -1 after them
RECURSIVE InOrder(_)
InOrder(numbers) ==
    IF numbers = {} THEN <<>>
    ELSE LET rest == numbers \ {0 - 1}
             pick == IF rest = {} THEN 0 - 1
                     ELSE CHOOSE n \in rest : \A m \in rest : n <= m
         IN  <<pick>> \o InOrder(numbers \ {pick})

\* sorted_books[number]: Python counts a negative number from the end
ItemAt(sorted_books, number) ==
    IF number >= 0 THEN sorted_books[number + 1]
    ELSE sorted_books[Len(sorted_books) + number + 1]

\* the loop "while True" of selectBooks, from reply k on: every exception of
\* the body is caught and the selection is asked for again, so the loop never
\* ends when nothing more is typed
RECURSIVE AskSelection(_, _, _)
AskSelection(sorted_books, replies, k) ==
    IF k > Len(replies)
    THEN [err |-> "never returns", sorted_books |-> sorted_books, books |-> <<>>,
          asked |-> k - 1]
    ELSE LET n == Numbers(replies[k])
             order == InOrder(n.numbers)
             inrange == \A m \in n.numbers :
                           m < Len(sorted_books) /\ m >= 0 - Len(sorted_books)
         IN  IF n.ok /\ inrange
             THEN [err |-> "none", sorted_books |-> sorted_books,
                   books |-> [i \in DOMAIN order |-> ItemAt(sorted_books, order[i])],
                   asked |-> k]
             ELSE AskSelection(sorted_books, replies, k + 1)

\* selectBooks(): books is the working set, sortings and selections are what the
\* user types; the list returned, or the exception raised by sortBooks
selectBooks(books, sortings, selections, mtime, size) ==
    LET s == sortBooks(books, sortings, mtime, size)
    IN  IF s.err # "none"
        THEN [err |-> s.err, sorted_books |-> <<>>, books |-> <<>>, asked |-> 0]
        ELSE AskSelection(s.books, selections, 1)

(***************************************************************************)
(* The device store: checkCollectionsDB, cleanCollectionsDB and            *)
(* binarySearch.  The table ShelfContent is the sequence of its rows       *)
(* <<ShelfName, ContentId>>.                                               *)
(***************************************************************************)
\* binarySearch: the loop "while high > low"; the value returned is item or
\* False
RECURSIVE BinarySearchLoop(_, _, _, _)
BinarySearchLoop(iterable, item, low, high) ==
    IF high > low
    THEN IF iterable[(low + high) \div 2 + 1] = item
         THEN [ret |-> "item", item |-> item]
         ELSE IF StrLess(iterable[(low + high) \div 2 + 1], item)
              THEN BinarySearchLoop(iterable, item, (low + high) \div 2 + 1, high)
              ELSE BinarySearchLoop(iterable, item, low, (low + high) \div 2)
    ELSE [ret |-> "False", item |-> <<>>]

\* a search that stops one short of the end of the list
binarySearchShort(iterable, item) ==
    BinarySearchLoop(iterable, item, 0, Len(iterable) - 1)

binarySearch(iterable, item) == BinarySearchLoop(iterable, item, 0, Len(iterable))

\* not x for what binarySearch returns: False and the empty string are false
Not(x) == x.ret = "False" \/ x.item = <<>>

\* sorted(books)
Sorted(books) == BooksOf(SortedByKey([i \in DOMAIN books |-> <<books[i], books[i]>>]))

\* re.sub(r".+/", "", id): the greedy .+ runs to the last "/" that has a
\* character before it
TrailingSegment(id) ==
    LET slashes == {i \in 2..Len(id) : id[i] = "/"}
    IN  IF slashes = {} THEN id
        ELSE From(id, (CHOOSE i \in slashes : \A j \in slashes : j <= i) + 1)

\* what both functions start from: device[-1] of the path typed
OpenStore(device, db) ==
    [err |-> IF device = <<>> THEN "IndexError" ELSE "none", db |-> db,
     backup |-> <<>>, saved |-> FALSE, counter |-> 0, reported |-> <<>>]

\* "for row in cursor.fetchall()" of both functions from row i on: rows is the
\* table as fetched, delete tells whether the DELETE statement is executed
RECURSIVE ForRows(_, _, _, _, _)
ForRows(r, rows, books_sorted, delete, i) ==
    IF i > Len(rows) \/ r.err # "none" THEN r
    ELSE IF Not(binarySearch(books_sorted, TrailingSegment(rows[i][2])))
         THEN ForRows([r EXCEPT !.counter = @ + 1,
                                !.reported = Append(@, TrailingSegment(rows[i][2])),
                                !.db = IF delete
                                       THEN SelectSeq(@, LAMBDA row : row[2] # rows[i][2])
                                       ELSE @],
                      rows, books_sorted, delete, i + 1)
         ELSE ForRows(r, rows, books_sorted, delete, i + 1)

\* checkCollectionsDB(books) on the table db of the device
checkCollectionsDB(books, device, db) ==
    ForRows(OpenStore(device, db), db, Sorted(books), FALSE, 1)

\* the loop that asks whether to make a backup, from reply k on
RECURSIVE AskBackup(_, _)
AskBackup(replies, k) ==
    IF k > Len(replies) THEN [err |-> "EOFError", backup |-> <<>>]
    ELSE IF replies[k] \in {<<"Y">>, <<"N">>, <<"y">>, <<"n">>}
         THEN [err |-> "none", backup |-> replies[k]]
         ELSE AskBackup(replies, k + 1)

\* cleanCollectionsDB(books) on the table db of the device; replies are the
\* answers to the question about the backup
cleanCollectionsDB(books, device, replies, db) ==
    IF device = <<>> \/ AskBackup(replies, 1).err # "none"
    THEN [OpenStore(device, db) EXCEPT
              !.err = IF device = <<>> THEN "IndexError" ELSE AskBackup(replies, 1).err]
    ELSE ForRows([OpenStore(device, db) EXCEPT
                      !.saved = AskBackup(replies, 1).backup \in {<<"Y">>, <<"y">>},
                      !.backup = IF AskBackup(replies, 1).backup \in {<<"Y">>, <<"y">>}
                                 THEN db ELSE <<>>],
                 db, Sorted(books), TRUE, 1)

(***************************************************************************)
(* The images of the books: imageSize and imageAll open every .epub of the *)
(* working set as a zip archive.  The files of the sessions modelled are   *)
(* shorter than any zip archive, so opening one raises BadZipFile; the     *)
(* reading of the entries of an archive is not part of the model.          *)
(***************************************************************************)
\* the size of the smallest zip archive: its end record
SmallestArchive == 22

\* ZF(path + book) for a file that is no archive: size gives the sizes of the
\* files of the directory
OpenArchive(book, size) ==
    IF book \notin DOMAIN size THEN "FileNotFoundError"
    ELSE IF size[book] < SmallestArchive THEN "BadZipFile"
    ELSE "archive"

\* the loop "for book in books" of imageSize and of imageAll from position i on,
\* up to the first book whose name holds ".epub"
RECURSIVE ForEpubs(_, _, _)
ForEpubs(books, size, i) ==
    IF i > Len(books) THEN "none"
    ELSE IF Contains(Lower(books[i]), Epub) THEN OpenArchive(books[i], size)
    ELSE ForEpubs(books, size, i + 1)

\* imageAll(path, books)
imageAll(books, size) == [err |-> ForEpubs(books, size, 1)]

\* a prompt of imageSize for a number of bytes from reply k on: D keeps the
\* default, I (where ignoring is offered) turns the check off, a non-negative
\* integer is taken, and anything else is asked for again; the loop catches
\* ValueError and AssertionError only, so the EOFError of input() with nothing
\* more typed leaves imageSize
RECURSIVE AskBytes(_, _, _)
AskBytes(replies, k, ignoring) ==
    IF k > Len(replies) THEN [err |-> "EOFError", asked |-> k - 1]
    ELSE IF replies[k] \in {<<"d">>, <<"D">>}
         THEN [err |-> "none", flag |-> TRUE, asked |-> k]
    ELSE IF ignoring /\ replies[k] \in {<<"i">>, <<"I">>}
         THEN [err |-> "none", flag |-> FALSE, asked |-> k]
    ELSE IF ParseInt(replies[k]).ok /\ ParseInt(replies[k]).val >= 0
         THEN [err |-> "none", flag |-> TRUE, asked |-> k]
    ELSE AskBytes(replies, k + 1, ignoring)

\* imageSize: the prompt for the most images per book, asked for only when the
\* images are checked
AskLimit(replies, images) ==
    IF images.err = "none" /\ images.flag
    THEN AskBytes(replies, images.asked + 1, FALSE)
    ELSE images

\* imageSize: the prompt for the size of the directory of images, which follows
\* the prompt for the size of the cover
AskImages(replies, cover) == AskBytes(replies, cover.asked + 1, TRUE)

\* imageSize after its prompts: nothing is opened when both checks are off
ImagesChecked(books, size, cover, images, limit) ==
    IF limit.err # "none" THEN [err |-> limit.err, asked |-> limit.asked]
    ELSE IF ~(cover.flag \/ images.flag) THEN [err |-> "none", asked |-> limit.asked]
    ELSE [err |-> ForEpubs(books, size, 1), asked |-> limit.asked]

\* imageSize(path, books): replies are what the user types at its prompts
imageSize(books, replies, size) ==
    ImagesChecked(books, size,
                  AskBytes(replies, 1, TRUE),
                  AskImages(replies, AskBytes(replies, 1, TRUE)),
                  AskLimit(replies, AskImages(replies, AskBytes(replies, 1, TRUE))))

\* ch(books): random.choice raises IndexError on an empty list
RandomChoice(books) ==
    IF books = <<>> THEN [err |-> "IndexError", among |-> {}]
    ELSE [err |-> "none", among |-> {books[i] : i \in DOMAIN books}]

(***************************************************************************)
(* The session: the menu loop of the main program.                         *)
(***************************************************************************)
\* the most files a directory starts with
MaxFiles == 2

\* the most menu choices of one session
MaxSteps == 3

\* the filenames directories start from
Pool ==
    << <<"a", "b", ".", "e", "p", "u", "b">>,
       <<"a", "a", "b", ".", "e", "p", "u", "b">>,
       <<"N", " ", ".", "e", "p", "u", "b">>,
       <<"S", " ", ",", "J", ".", "p", "d", "f">>,
       <<"D", "_", "t", ".", "m", "o", "b", "i">>,
       <<"S", " ", "-", " ", "W", "_", " ", "H", ".", "e", "p", "u", "b">>,
       <<"S", " ", "-", " ", "W", "_", " ", "Q", ".", "e", "p", "u", "b">> >>

\* the listings of the comparison directory entered in restoreAuthors
RefListings ==
    { <<<<"n", "o", "d", "o", "t">>, <<"P", " ", "-", " ", "a", "b", ".", "p", "d", "f">>, <<"Q", " ", "-", " ", "a", "b", ".", "m", "o", "b", "i">>>> }

\* the substrings entered in removeSubstring
Substrings == {<<"a">>, <<"_", " ", "H">>}

\* the replies to the prompt of withAuthors: O, or N and a new filename
Replies ==
    { [choice |-> "O", name |-> <<>>],
      [choice |-> "N", name |-> <<"n", ".", "e", "p", "u", "b">>] }

\* getBooks: re.search(r".pdf$", book) and the like: any character, then the
\* extension, at the end of the name
BookExtensions == {<<"p", "d", "f">>, <<"a", "z", "w">>,
                   <<"e", "p", "u", "b">>, <<"m", "o", "b", "i">>}

IsListed(book) ==
    \E ext \in BookExtensions :
        Len(book) > Len(ext) /\ LastN(book, Len(ext)) = ext

\* the orders in which os.listdir may give the names of a set
Orders(names) ==
    {s \in [1..Cardinality(names) -> names] :
        \A i, j \in DOMAIN s : i # j => s[i] # s[j]}

\* getBooks(path): the listed names of the directory, in the order of os.listdir
getBooks(d) == Orders({n \in DOMAIN d : IsListed(n)})

\* the directory that holds the files Pool[i], i in ids
DirOf(ids) == [n \in {Pool[i] : i \in ids} |-> CHOOSE i \in ids : Pool[i] = n]

InitDirs ==
    {DirOf(ids) : ids \in {x \in SUBSET DOMAIN Pool :
                              Cardinality(x) >= 1 /\ Cardinality(x) <= MaxFiles}}

\* the directories on disk: the one a session starts in and another one
Paths == {"d", "o"}

\* the other directory when the session starts: two files that are no files of
\* the directory the session starts in
OtherDir ==
    LET first == <<"D", "_", "t", ".", "m", "o", "b", "i">>
        second == <<"a", "b", ".", "e", "p", "u", "b">>
    IN  [n \in {first, second} |-> IF n = first THEN Len(Pool) + 1 ELSE Len(Pool) + 2]

\* what the user types when asked for the path: the path of one of the
\* directories, a path that names no directory, or nothing
TypedPaths == Paths \cup {"nowhere", ""}

\* getPath(): path[-1] raises IndexError when nothing was typed
getPath(typed) == IF typed = "" THEN "IndexError" ELSE "none"

\* os.listdir(path) raises FileNotFoundError when path names no directory
ListDir(typed) == IF typed \notin Paths THEN "FileNotFoundError" ELSE "none"

VARIABLES
    osname,   \* os.name: "nt" or "posix"
    path,     \* the directory the user typed last
    away,     \* the files of the directory that is not at path
    dir,      \* the files of the directory at path
    books,    \* the working set
    undo,     \* the ledger
    alive,    \* FALSE once an exception has ended the program
    steps,    \* the menu choices made
    last,     \* what the last operation did
    prev,     \* what the operation before it did
    g         \* the filename a grammar function is applied to, and the results

vars == <<osname, path, away, dir, books, undo, alive, steps, last, prev, g>>

\* no operation yet
NoOp ==
    [op |-> "none", dir |-> <<>>, undo |-> <<>>, books |-> <<>>, err |-> "none",
     count |-> 0, renamed |-> <<>>, notfound |-> <<>>, kept |-> <<>>]

NoName ==
    [authors |-> <<>>, title |-> <<>>, subtitle |-> <<>>, article |-> <<>>,
     ext |-> <<>>, name |-> <<>>, op |-> "none", once |-> <<>>, twice |-> <<>>]

Init ==
    /\ osname \in {"nt", "posix"}
    /\ path = "d" /\ away = OtherDir
    /\ dir \in InitDirs
    /\ books \in getBooks(dir)
    /\ undo = <<>>
    /\ alive = TRUE
    /\ steps = 0
    /\ last = NoOp
    /\ prev = NoOp
    /\ g = NoName

\* the record of an operation op that started with the directory, ledger and
\* working set of the current state and ended in r
Done(op, r) ==
    [op |-> op, dir |-> dir, undo |-> undo, books |-> books, err |-> r.err,
     count |-> r.count, renamed |-> r.renamed, notfound |-> r.notfound,
     kept |-> r.kept]

\* a menu choice that runs an operation ending in r: an exception the operation
\* raises is caught nowhere and ends the program
Ran(op, res) ==
    LET r == res IN
    /\ alive /\ steps < MaxSteps
    /\ dir' = r.dir
    /\ undo' = r.undo
    /\ alive' = (r.err = "none")
    /\ steps' = steps + 1
    /\ prev' = last
    /\ last' = Done(op, r)
    /\ UNCHANGED <<osname, path, away, books, g>>

\* menu choices 3, 4, 5, 10, 11, 12, 13 and 14
RemoveMultipleSpacing ==
    Ran("removeMultipleSpacing", removeMultipleSpacing(Begin(osname, dir, undo), books))

FixCommaSpacing ==
    Ran("fixCommaSpacing", fixCommaSpacing(Begin(osname, dir, undo), books))

FixApostrophes ==
    Ran("fixApostrophes", fixApostrophes(Begin(osname, dir, undo), books))

WithoutAuthors ==
    Ran("withoutAuthors", withoutAuthors(Begin(osname, dir, undo), books))

WithAuthors ==
    \E answers \in [1..Len(books) -> Replies] :
        Ran("withAuthors", withAuthors(Begin(osname, dir, undo), books, answers))

RestoreAuthors ==
    \E books2 \in RefListings :
        Ran("restoreAuthors", restoreAuthors(Begin(osname, dir, undo), books, books2))

RemoveSubstring ==
    \E substring \in Substrings :
        Ran("removeSubstring", removeSubstring(Begin(osname, dir, undo), books, substring))

RestoreOld == Ran("restoreOld", restoreOld(Begin(osname, dir, undo)))

\* menu choice 1: books = getBooks(path)
Refresh ==
    /\ alive /\ steps < MaxSteps
    /\ books' \in getBooks(dir)
    /\ steps' = steps + 1
    /\ prev' = last
    /\ last' = [NoOp EXCEPT !.op = "refresh", !.dir = dir, !.undo = undo,
                            !.books = books]
    /\ UNCHANGED <<osname, path, away, dir, undo, alive, g>>

\* menu choice 0: undo = dict(); path = getPath(); books = getBooks(path); the
\* ledger is emptied before the path is asked for, and an exception of getPath
\* or of os.listdir is caught nowhere and ends the program; each directory is
\* found with the files the session left in it
NewPath ==
    /\ alive /\ steps < MaxSteps
    /\ \E typed \in TypedPaths :
          LET err == IF getPath(typed) # "none" THEN getPath(typed) ELSE ListDir(typed)
              moves == typed \in Paths \ {path}
          IN  /\ undo' = <<>>
              /\ path' = IF getPath(typed) = "none" THEN typed ELSE path
              /\ dir' = IF moves THEN away ELSE dir
              /\ away' = IF moves THEN dir ELSE away
              /\ IF err = "none" THEN books' \in getBooks(dir') ELSE books' = books
              /\ alive' = (err = "none")
              /\ last' = [NoOp EXCEPT !.op = "newPath", !.dir = dir, !.undo = undo,
                                      !.books = books, !.err = err]
    /\ steps' = steps + 1
    /\ prev' = last
    /\ UNCHANGED <<osname, g>>

Next ==
    \/ NewPath
    \/ RemoveMultipleSpacing
    \/ FixCommaSpacing
    \/ FixApostrophes
    \/ WithoutAuthors
    \/ WithAuthors
    \/ RestoreAuthors
    \/ RemoveSubstring
    \/ RestoreOld
    \/ Refresh

Spec == Init /\ [][Next]_vars

(***************************************************************************)
(* The grammar functions on their own: a filename built from the parts of  *)
(* <Authors> - <Title>[_ <Subtitle>][, <Article>].<ext>, to which          *)
(* strip-to-title (once, then again on its result) or strip-subtitle-only  *)
(* is applied.                                                             *)
(***************************************************************************)
\* author segments: plain, with the initial "A.", with an underscore and a space
GAuthors == { <<"S">>, <<"D", ",", " ", "A", ".">>, <<"S", "_", " ", "J">> }

\* titles: plain, with a hyphen, with a comma, with a second separator, starting
\* with a hyphen, and ending in a comma and an article
GTitles ==
    { <<"W">>,
      <<"W", "-", "P">>,
      <<"X", ",", " ", "A", " ", "Y">>,
      <<"W", " ", "-", " ", "P">>,
      <<"-", " ", "x">>,
      <<"B", ",", " ", "A">> }

\* subtitles; <<>> is a name without subtitle
GSubtitles == { <<>>, <<"H">>, <<"H", " ", "-", " ", "I">> }

\* the articles of the table; <<>> is a name without trailing article
GArticles == {<<>>} \cup {RenameBookArticles[k].art : k \in DOMAIN RenameBookArticles}

GExts == { <<"e", "p", "u", "b">>, <<"p", "d", "f">> }

GrammarName(a, ti, s, r, e) ==
    a \o <<" ", "-", " ">> \o ti
      \o (IF s = <<>> THEN <<>> ELSE <<"_", " ">> \o s)
      \o (IF r = <<>> THEN <<>> ELSE <<",", " ">> \o r)
      \o <<".">> \o e

GInit ==
    /\ \E a \in GAuthors, ti \in GTitles, s \in GSubtitles, r \in GArticles, e \in GExts :
          g = [authors |-> a, title |-> ti, subtitle |-> s, article |-> r, ext |-> e,
               name |-> GrammarName(a, ti, s, r, e),
               op |-> "none", once |-> <<>>, twice |-> <<>>]
    /\ osname = "nt" /\ dir = <<>> /\ books = <<>> /\ undo = <<>>
    /\ path = "d" /\ away = <<>>
    /\ alive = TRUE /\ steps = 0 /\ last = NoOp /\ prev = NoOp

\* withoutAuthors applied to the name
GStripToTitle ==
    /\ g.op = "none"
    /\ g' = [g EXCEPT !.op = "title", !.once = StripToTitle(g.name)]
    /\ UNCHANGED <<osname, path, away, dir, books, undo, alive, steps, last, prev>>

\* withoutAuthors applied to its own result
GStripToTitleAgain ==
    /\ g.op = "title"
    /\ g' = [g EXCEPT !.op = "title2", !.twice = StripToTitle(g.once)]
    /\ UNCHANGED <<osname, path, away, dir, books, undo, alive, steps, last, prev>>

\* withAuthors applied to the name
GStripSubtitleOnly ==
    /\ g.op = "none"
    /\ g' = [g EXCEPT !.op = "subtitle", !.once = StripSubtitleOnly(g.name)]
    /\ UNCHANGED <<osname, path, away, dir, books, undo, alive, steps, last, prev>>

GNext == GStripToTitle \/ GStripToTitleAgain \/ GStripSubtitleOnly

SpecGrammar == GInit /\ [][GNext]_vars

(***************************************************************************)
(* The grammar functions on names outside the plain grammar: names without *)
(* authors and separator, and names with the extension kepub.epub.         *)
(***************************************************************************)
GKepubExt == <<"k", "e", "p", "u", "b", ".", "e", "p", "u", "b">>

\* the name of the parts; no authors (<<>>) gives a name without separator
GVariantName(a, ti, s, r, e) ==
    IF a = <<>>
    THEN From(GrammarName(a, ti, s, r, e), 4)
    ELSE GrammarName(a, ti, s, r, e)

GVariantInit ==
    /\ \E a \in GAuthors \cup {<<>>}, ti \in GTitles, s \in GSubtitles,
          r \in GArticles, e \in GExts \cup {GKepubExt} :
          /\ a = <<>> \/ e = GKepubExt
          /\ g = [authors |-> a, title |-> ti, subtitle |-> s, article |-> r, ext |-> e,
                  name |-> GVariantName(a, ti, s, r, e),
                  op |-> "none", once |-> <<>>, twice |-> <<>>]
    /\ osname = "nt" /\ dir = <<>> /\ books = <<>> /\ undo = <<>>
    /\ path = "d" /\ away = <<>>
    /\ alive = TRUE /\ steps = 0 /\ last = NoOp /\ prev = NoOp

SpecVariant == GVariantInit /\ [][GNext]_vars

(***************************************************************************)
(* Sessions of apostrophe repair: directories of names with underscores,   *)
(* and the menu choices 5 (fixApostrophes) and 1 (refresh).                *)
(***************************************************************************)
ApostrophePool ==
    << <<"D", "_", "t", ".", "m", "o", "b", "i">>,
       <<"D", "'", "t", ".", "m", "o", "b", "i">>,
       <<"a", "_", "b", "_", "c", ".", "p", "d", "f">>,
       <<"a", "_", " ", "b", "_", "1", ".", "e", "p", "u", "b">>,
       <<"_", "a", "_", "_", "b", "_", ".", "e", "p", "u", "b">>,
       <<"a", "b", ".", "e", "p", "u", "b">> >>

ApostropheDirOf(ids) ==
    [n \in {ApostrophePool[i] : i \in ids} |-> CHOOSE i \in ids : ApostrophePool[i] = n]

ApostropheDirs ==
    {ApostropheDirOf(ids) : ids \in {x \in SUBSET DOMAIN ApostrophePool :
                                        Cardinality(x) >= 1 /\ Cardinality(x) <= MaxFiles}}

ApostropheInit ==
    /\ osname \in {"nt", "posix"}
    /\ path = "d" /\ away = <<>>
    /\ dir \in ApostropheDirs
    /\ books \in getBooks(dir)
    /\ undo = <<>>
    /\ alive = TRUE
    /\ steps = 0
    /\ last = NoOp
    /\ prev = NoOp
    /\ g = NoName

ApostropheNext == FixApostrophes \/ Refresh

SpecApostrophe == ApostropheInit /\ [][ApostropheNext]_vars

(***************************************************************************)
(* The name transformations of the three cleanup passes on their own: the  *)
(* value of the variable book at the end of the loop body, applied to a    *)
(* name and then to its own result.                                        *)
(***************************************************************************)
\* the result of a transformation that raised IndexError
NameError == <<"IndexError">>

\* removeMultipleSpacing: book at the end of the loop body
SpacingName(old) ==
    LET e == EndSpacing(old)
    IN  IF e.err # "none" THEN NameError
        ELSE IF HasMultipleSpacing(e.name) THEN CollapseSpacing(e.name) ELSE e.name

\* the result of a transformation that raised FileNotFoundError
CommaError == <<"FileNotFoundError">>

\* fixCommaSpacing: book at the end of the loop body; after the first fix has
\* renamed the file, the second fix renames it from its old name again, which
\* is the name of no file any more
CommaName(old) ==
    LET b1 == IF HasSpaceComma(old) THEN DropSpaceComma(old) ELSE old
    IN  IF HasCommaNoSpace(b1)
        THEN IF HasSpaceComma(old) THEN CommaError ELSE SpaceAfterComma(b1)
        ELSE b1

\* fixApostrophes: book at the end of the loop body
ApostropheName(old) == IF HasLetterUnderscore(old) THEN Apostrophes(old) ELSE old

\* the longest stem of a name
MaxStem == 4

CleanupAlphabet == {"a", " ", ",", "_", "1"}

CleanupExts == { <<"e", "p", "u", "b">>, <<"p", "d", "f">> }

CleanupStems == UNION {[1..n -> CleanupAlphabet] : n \in 1..MaxStem}

CleanupInit ==
    /\ \E s \in CleanupStems, e \in CleanupExts :
          g = [NoName EXCEPT !.title = s, !.ext = e, !.name = s \o <<".">> \o e]
    /\ osname = "nt" /\ dir = <<>> /\ books = <<>> /\ undo = <<>>
    /\ path = "d" /\ away = <<>>
    /\ alive = TRUE /\ steps = 0 /\ last = NoOp /\ prev = NoOp

\* a pass applied to the name
GSpacing ==
    /\ g.op = "none"
    /\ g' = [g EXCEPT !.op = "spacing", !.once = SpacingName(g.name)]
    /\ UNCHANGED <<osname, path, away, dir, books, undo, alive, steps, last, prev>>

GComma ==
    /\ g.op = "none"
    /\ g' = [g EXCEPT !.op = "comma", !.once = CommaName(g.name)]
    /\ UNCHANGED <<osname, path, away, dir, books, undo, alive, steps, last, prev>>

GApostrophe ==
    /\ g.op = "none"
    /\ g' = [g EXCEPT !.op = "apostrophe", !.once = ApostropheName(g.name)]
    /\ UNCHANGED <<osname, path, away, dir, books, undo, alive, steps, last, prev>>

\* the same pass applied to its own result
GSpacingAgain ==
    /\ g.op = "spacing" /\ g.once # NameError
    /\ g' = [g EXCEPT !.op = "spacing2", !.twice = SpacingName(g.once)]
    /\ UNCHANGED <<osname, path, away, dir, books, undo, alive, steps, last, prev>>

GCommaAgain ==
    /\ g.op = "comma" /\ g.once # CommaError
    /\ g' = [g EXCEPT !.op = "comma2", !.twice = CommaName(g.once)]
    /\ UNCHANGED <<osname, path, away, dir, books, undo, alive, steps, last, prev>>

GApostropheAgain ==
    /\ g.op = "apostrophe"
    /\ g' = [g EXCEPT !.op = "apostrophe2", !.twice = ApostropheName(g.once)]
    /\ UNCHANGED <<osname, path, away, dir, books, undo, alive, steps, last, prev>>

CleanupNext ==
    \/ GSpacing
    \/ GComma
    \/ GApostrophe
    \/ GSpacingAgain
    \/ GCommaAgain
    \/ GApostropheAgain

SpecCleanup == CleanupInit /\ [][CleanupNext]_vars

(***************************************************************************)
(* Comparisons of listings: the matchers over bounded listings.            *)
(***************************************************************************)
\* the longest listing compared
MaxListing == 2

MatchPool ==
    { <<"a", "b", "c", "d", "e", "f", "g", "h", "i", "j", ".", "e", "p", "u", "b">>,
      <<"a", "b", "c", "d", "e", "f", "g", "h", "i", "j", ".", "p", "d", "f">>,
      <<"a", "b", "c", "d", "e", "f", "g", "h", "i", ".", "m", "o", "b", "i">>,
      <<"a", "b", "c", "d", "e", "f", "g", "h", "i", "x", ".", "e", "p", "u", "b">>,
      <<"j", "i", "h", "g", "f", "e", "d", "c", "b", "a", ".", "e", "p", "u", "b">>,
      <<"x", ".", "e", "p", "u", "b">>,
      <<"n", "o", "t", "e", "s", ".", "t", "x", "t">> }

\* the listings of at most MaxListing different names
Listings ==
    UNION {{s \in [1..n -> MatchPool] : \A i, j \in 1..n : i # j => s[i] # s[j]} :
              n \in 1..MaxListing}

MatchInit ==
    /\ \E bs \in Listings, bs2 \in Listings :
          g = [op |-> "none", books |-> bs, books2 |-> bs2,
               identical |-> <<>>, similar |-> <<>>, different |-> <<>>]
    /\ osname = "nt" /\ dir = <<>> /\ books = <<>> /\ undo = <<>>
    /\ path = "d" /\ away = <<>>
    /\ alive = TRUE /\ steps = 0 /\ last = NoOp /\ prev = NoOp

\* menu choice 16
CompareWithinDir ==
    /\ g.op = "none"
    /\ g' = [g EXCEPT !.op = "compareWithinDir", !.similar = compareWithinDir(g.books)]
    /\ UNCHANGED <<osname, path, away, dir, books, undo, alive, steps, last, prev>>

\* menu choice 15
CompareTwoDirs ==
    /\ g.op = "none"
    /\ LET r == compareTwoDirs(g.books, g.books2)
       IN  g' = [g EXCEPT !.op = "compareTwoDirs", !.identical = r.identical,
                          !.similar = r.similar, !.different = r.different]
    /\ UNCHANGED <<osname, path, away, dir, books, undo, alive, steps, last, prev>>

MatchNext == CompareWithinDir \/ CompareTwoDirs

SpecMatch == MatchInit /\ [][MatchNext]_vars

(***************************************************************************)
(* Comparison of sizes: compareSize on the listings of two directories.    *)
(***************************************************************************)
\* the names of directory 1 and of directory 2
SizePool1 ==
    { <<"X", ".", "e", "p", "u", "b">>,
      <<"Y", ".", "p", "d", "f">>,
      <<"n", "o", "t", "e", "s", ".", "t", "x", "t">> }

SizePool2 ==
    { <<"x", ".", "p", "d", "f">>,
      <<"Y", ".", "e", "p", "u", "b">>,
      <<"n", "o", "t", "e", "s", ".", "t", "x", "t">> }

\* the sizes in bytes of the files of directory 1 and of directory 2
SizeValues1 == {0, 100, 1000}

SizeValues2 == {0, 93, 300, 400}

\* what the user types when asked for the share, up to the reply that ends the
\* asking
ShareReplies ==
    { << <<"0">> >>,
      << <<"0", ".", "5">> >>,
      << <<"0", ".", "7">> >>,
      << <<"0", ".", "0", "7">> >>,
      << <<"1">> >>,
      << <<"2">>, <<"0", ".", "5">> >>,
      << <<"-", "1">>, <<"1">> >>,
      << <<"a", "b", "c">> >> }

\* the listings of at most MaxListing different names of pool, in any order
SizeListings(pool) ==
    UNION {{s \in [1..n -> pool] : \A i, j \in 1..n : i # j => s[i] # s[j]} :
              n \in 1..MaxListing}

\* the sizes of the files of a listing
SizesOf(listing, values) ==
    {f \in [{listing[i] : i \in DOMAIN listing} -> values] :
        \A n \in DOMAIN f : ~IsBookName(n) => f[n] = 0}

SizeInit ==
    /\ \E bs \in SizeListings(SizePool1), bs2 \in SizeListings(SizePool2) \cup {<<>>},
          rs \in ShareReplies :
          \E s1 \in SizesOf(bs, SizeValues1), s2 \in SizesOf(bs2, SizeValues2) :
             g = [op |-> "none", books |-> bs, books2 |-> bs2,
                  size1 |-> s1, size2 |-> s2, replies |-> rs,
                  identical |-> <<>>, matched |-> <<>>, err |-> "none",
                  asked |-> 0, num |-> 0, den |-> 1]
    /\ osname = "nt" /\ dir = <<>> /\ books = <<>> /\ undo = <<>>
    /\ path = "d" /\ away = <<>>
    /\ alive = TRUE /\ steps = 0 /\ last = NoOp /\ prev = NoOp

\* menu choice 17
CompareSize ==
    /\ g.op = "none"
    /\ LET r == compareSize(g.books, g.replies, g.books2, g.size1, g.size2)
       IN  g' = [g EXCEPT !.op = "compareSize", !.identical = r.identical,
                          !.matched = r.matched, !.err = r.err,
                          !.asked = r.asked, !.num = r.num, !.den = r.den]
    /\ UNCHANGED <<osname, path, away, dir, books, undo, alive, steps, last, prev>>

SizeNext == CompareSize

SpecSize == SizeInit /\ [][SizeNext]_vars

(***************************************************************************)
(* The prompts of a session: the menu choices 2, 17, 18, 19 and 22, the    *)
(* choices X and H, and the choices the menu does not know, each with what *)
(* the user types when asked.                                              *)
(***************************************************************************)
\* the books of the directory, as os.listdir gives them
SelectNames ==
    << <<"b", ".", "e", "p", "u", "b">>,
       <<"A", " ", "-", " ", "T", "h", "e", " ", "B", ".", "p", "d", "f">>,
       <<"T", "h", "e", " ", "Z", ".", "e", "p", "u", "b">>,
       <<"c", " ", "-", " ", "A", "n", " ", "e", ".", "m", "o", "b", "i">>,
       <<"E", "l", ".", "e", "p", "u", "b">>,
       <<"a", " ", "b", ".", "p", "d", "f">> >>

\* the listings of the directory typed at the start: it holds no book, the
\* first book, the first half or all of the books
SelectListings ==
    {SubSeq(SelectNames, 1, n) : n \in {0, 1, Len(SelectNames) \div 2, Len(SelectNames)}}

\* st_mtime and st_size of the books of a listing: one by position in the
\* directory, the other the same for all
SelectStats(listing) ==
    LET names == {listing[i] : i \in DOMAIN listing}
        position == [n \in names |-> CHOOSE i \in DOMAIN listing : listing[i] = n]
        same == [n \in names |-> 0]
    IN  {[mtime |-> position, size |-> same], [mtime |-> same, size |-> position]}

\* the menu choices of a session of prompts
MaxChoices == 2

\* what the user types when asked for the sorting, up to the reply that ends
\* the asking
SortingReplies ==
    { << <<"a">> >>,
      << <<"T">> >>,
      << <<"d">> >>,
      << <<"s">> >>,
      << <<"n">>, <<"S">> >> }

\* what the user types when asked for the selection, up to the reply that ends
\* the asking
SelectionReplies ==
    { << <<"1", ",", "3", "-", "5">> >>,
      << <<"2">> >>,
      << <<"0">> >>,
      << <<"0", "-", "2">> >>,
      << <<"7">>, <<"2">> >>,
      << <<"x">>, <<"1">> >>,
      << <<>>, <<"1", "-", "2">> >>,
      << <<"2", ",", "2", ",", "1", ",", " ", "2">> >>,
      << <<"3", "-", "1">> >>,
      << <<"1", "-", "2", "-", "3">> >>,
      << <<"3", "-">>, <<"4", "-", "6", ",", "1">> >> }

\* what the user types at the menu that is no choice of the menu
InvalidChoices ==
    { <<>>, <<"9", "9">>, <<"2", "x">>, <<"-", "1">> }

\* what the user types at the menu to leave the program
ExitChoices == { <<"X">>, <<"x">> }

\* what the user types at the menu to read about a choice
HelpChoices == { <<"H", "2">>, <<"h", "1", "7">>, <<"H", "2", "2">> }

\* the choices the menu stands for: the numbers 0 to 22
MenuNumbers == 0..22

\* H or h and one of the numbers of the menu, written without leading zeros
IsHelp(choice) ==
    /\ Len(choice) \in {2, 3}
    /\ choice[1] \in {"H", "h"}
    /\ IsDigits(Tail(choice))
    /\ Len(choice) = 3 => choice[2] # "0"
    /\ Decimal(Tail(choice)) \in MenuNumbers

\* what the menu does with a choice: X ends the program, H and a number prints
\* a help text (help(random) of H22 names a module that was never imported: the
\* NameError is raised outside the try and ends the program), a number of the
\* menu runs its branch, any other number is answered with "Enter a valid
\* number." and everything else raises the ValueError of int() the menu catches
Menu(choice) ==
    IF choice \in ExitChoices THEN [op |-> "quit", err |-> "SystemExit", alive |-> FALSE]
    ELSE IF IsHelp(choice)
         THEN IF Decimal(Tail(choice)) = 22
              THEN [op |-> "help", err |-> "NameError", alive |-> FALSE]
              ELSE [op |-> "help", err |-> "none", alive |-> TRUE]
    ELSE IF ~ParseInt(choice).ok THEN [op |-> "menu", err |-> "ValueError", alive |-> TRUE]
    ELSE IF ParseInt(choice).val \in MenuNumbers
         THEN [op |-> "branch", err |-> "none", alive |-> TRUE]
         ELSE [op |-> "menu", err |-> "none", alive |-> TRUE]

\* the other directory of choice 17 and the sizes of its files
OtherListing == << <<"b", ".", "p", "d", "f">>, <<"e", "l", ".", "m", "o", "b", "i">> >>

OtherSizes == [n \in {OtherListing[i] : i \in DOMAIN OtherListing} |-> 0]

NoInput ==
    [op |-> "none", before |-> <<>>, sortings |-> <<>>, selections |-> <<>>,
     replies |-> <<>>, choice |-> <<>>, err |-> "none", asked |-> 0,
     result |-> <<>>]

\* undo = dict(); path = getPath(); books = getBooks(path)
InputInit ==
    /\ books \in SelectListings
    /\ dir \in SelectStats(books)
    /\ undo = <<>>
    /\ alive = TRUE /\ steps = 0
    /\ g = NoInput
    /\ osname = "nt" /\ last = NoOp /\ prev = NoOp
    /\ path = "d" /\ away = <<>>

\* menu choice 2: books = selectBooks(); an exception of sortBooks ends the
\* program; the user types selections until one is accepted
SelectBooks ==
    /\ alive /\ steps < MaxChoices
    /\ \E sortings \in SortingReplies, selections \in SelectionReplies :
          LET r == selectBooks(books, sortings, selections, dir.mtime, dir.size)
          IN  /\ r.err # "never returns"
              /\ books' = IF r.err = "none" THEN r.books ELSE books
              /\ alive' = (r.err = "none")
              /\ g' = [NoInput EXCEPT !.op = "selectBooks", !.before = books,
                                      !.sortings = sortings, !.selections = selections,
                                      !.err = r.err, !.asked = r.asked,
                                      !.result = r.sorted_books]
    /\ steps' = steps + 1
    /\ UNCHANGED <<osname, path, away, dir, undo, last, prev>>

\* menu choice 17: compareSize(path, books) inside the try of the menu, whose
\* "except ValueError" prints "Enter a valid choice." and asks for a choice of
\* the menu again; every other exception ends the program
CompareSizeChoice ==
    /\ alive /\ steps < MaxChoices
    /\ \E replies \in ShareReplies :
          LET r == compareSize(books, replies, OtherListing, dir.size, OtherSizes)
          IN  /\ alive' = (r.err \in {"none", "ValueError"})
              /\ g' = [NoInput EXCEPT !.op = "compareSize", !.before = books,
                                      !.replies = replies, !.err = r.err,
                                      !.asked = r.asked, !.result = r.identical]
    /\ steps' = steps + 1
    /\ UNCHANGED <<osname, path, away, dir, books, undo, last, prev>>

\* what the user types at the prompts of imageSize: up to the reply that ends
\* the asking, or less than the prompts ask for
ImageReplies ==
    { <<>>,
      << <<"x">> >>,
      << <<"D">>, <<"D">> >>,
      << <<"D">>, <<"d">>, <<"D">> >>,
      << <<"I">>, <<"i">> >>,
      << <<"x">>, <<"5">>, <<"I">> >>,
      << <<"-", "1">>, <<"I">>, <<"0">>, <<"I">>, <<"3">> >> }

\* menu choice 18: imageSize(path, books); an exception it raises ends the
\* program
ImageSize ==
    /\ alive /\ steps < MaxChoices
    /\ \E replies \in ImageReplies :
          /\ alive' = (imageSize(books, replies, dir.size).err = "none")
          /\ g' = [NoInput EXCEPT !.op = "imageSize", !.before = books,
                                  !.replies = replies,
                                  !.err = imageSize(books, replies, dir.size).err,
                                  !.asked = imageSize(books, replies, dir.size).asked]
    /\ steps' = steps + 1
    /\ UNCHANGED <<osname, path, away, dir, books, undo, last, prev>>

\* menu choice 19: imageAll(path, books); an exception it raises ends the
\* program
ImageAll ==
    /\ alive /\ steps < MaxChoices
    /\ alive' = (imageAll(books, dir.size).err = "none")
    /\ g' = [NoInput EXCEPT !.op = "imageAll", !.before = books,
                            !.err = imageAll(books, dir.size).err]
    /\ steps' = steps + 1
    /\ UNCHANGED <<osname, path, away, dir, books, undo, last, prev>>

\* menu choice 22: print(ch(books)), one book of the working set; the
\* IndexError of an empty working set ends the program
RandomBook ==
    /\ alive /\ steps < MaxChoices
    /\ alive' = (RandomChoice(books).err = "none")
    /\ \/ /\ RandomChoice(books).err # "none"
          /\ g' = [NoInput EXCEPT !.op = "random", !.before = books,
                                  !.err = RandomChoice(books).err]
       \/ \E book \in RandomChoice(books).among :
             g' = [NoInput EXCEPT !.op = "random", !.before = books,
                                  !.result = <<book>>]
    /\ steps' = steps + 1
    /\ UNCHANGED <<osname, path, away, dir, books, undo, last, prev>>

\* a choice the menu does not know: int(choice) raises the ValueError the menu
\* catches, or no branch is taken for the number; the menu is shown again
InvalidChoice ==
    /\ alive /\ steps < MaxChoices
    /\ \E choice \in InvalidChoices :
          /\ Menu(choice).op = "menu"
          /\ g' = [NoInput EXCEPT !.op = "menu", !.before = books, !.choice = choice,
                                  !.err = Menu(choice).err, !.asked = 1]
          /\ alive' = Menu(choice).alive
    /\ steps' = steps + 1
    /\ UNCHANGED <<osname, path, away, dir, books, undo, last, prev>>

\* the choice X or x: quit() ends the program
Quit ==
    /\ alive /\ steps < MaxChoices
    /\ \E choice \in ExitChoices :
          /\ Menu(choice).op = "quit"
          /\ g' = [NoInput EXCEPT !.op = "quit", !.before = books, !.choice = choice,
                                  !.err = Menu(choice).err, !.asked = 1]
          /\ alive' = Menu(choice).alive
    /\ steps' = steps + 1
    /\ UNCHANGED <<osname, path, away, dir, books, undo, last, prev>>

\* H or h and a number: the help text is printed and the menu is shown again;
\* H22 ends the program
Help ==
    /\ alive /\ steps < MaxChoices
    /\ \E choice \in HelpChoices :
          /\ Menu(choice).op = "help"
          /\ g' = [NoInput EXCEPT !.op = "help", !.before = books, !.choice = choice,
                                  !.err = Menu(choice).err, !.asked = 1]
          /\ alive' = Menu(choice).alive
    /\ steps' = steps + 1
    /\ UNCHANGED <<osname, path, away, dir, books, undo, last, prev>>

InputNext ==
    \/ SelectBooks
    \/ CompareSizeChoice
    \/ ImageSize
    \/ ImageAll
    \/ RandomBook
    \/ InvalidChoice
    \/ Quit
    \/ Help

SpecInput == InputInit /\ [][InputNext]_vars

(***************************************************************************)
(* The device store: the menu choices 20 and 21 on a working set and a     *)
(* table ShelfContent.                                                     *)
(***************************************************************************)
\* the filenames of the working set
DevicePool ==
    { <<"a", ".", "e", "p", "u", "b">>,
      <<"b", ".", "p", "d", "f">>,
      <<"z", "z", ".", "e", "p", "u", "b">>,
      <<"B", ".", "p", "d", "f">> }

\* the rows of the table: a shelf and the content identifier of a book, a path
\* or a bare identifier
RowPool ==
    { <<<<"S">>, <<"d", "/", "a", ".", "e", "p", "u", "b">>>>,
      <<<<"T">>, <<"d", "/", "a", ".", "e", "p", "u", "b">>>>,
      <<<<"S">>, <<"d", "/", "e", "/", "b", ".", "p", "d", "f">>>>,
      <<<<"S">>, <<"c", ".", "m", "o", "b", "i">>>>,
      <<<<"S">>, <<"d", "/", "z", "z", ".", "e", "p", "u", "b">>>>,
      <<<<"T">>, <<"e", "/", "B", ".", "p", "d", "f">>>> }

\* the rows of a table at most
MaxRows == 2

\* the working sets: at most MaxListing different names, in any order
DeviceListings ==
    UNION {{s \in [1..n -> DevicePool] : \A i, j \in 1..n : i # j => s[i] # s[j]} :
              n \in 0..MaxListing}

\* the tables: at most MaxRows different rows, in any order
Tables ==
    UNION {{s \in [1..n -> RowPool] : \A i, j \in 1..n : i # j => s[i] # s[j]} :
              n \in 0..MaxRows}

\* the paths typed for the device, and the answers to the question about the
\* backup up to the one that ends the asking
DevicePaths == {<<"K">>, <<>>}

BackupReplies == { << <<"Y">> >>, << <<"n">> >>, << <<"x">>, <<"N">> >> }

DeviceInit ==
    /\ \E bs \in DeviceListings, db \in Tables :
          g = [op |-> "none", books |-> bs, db |-> db, after |-> db,
               backup |-> <<>>, saved |-> FALSE, counter |-> 0, err |-> "none"]
    /\ osname = "nt" /\ dir = <<>> /\ books = <<>> /\ undo = <<>>
    /\ path = "d" /\ away = <<>>
    /\ alive = TRUE /\ steps = 0 /\ last = NoOp /\ prev = NoOp

\* menu choice 20
CheckCollectionsDB ==
    /\ g.op = "none"
    /\ \E device \in DevicePaths :
          g' = [g EXCEPT !.op = "checkCollectionsDB",
                         !.after = checkCollectionsDB(g.books, device, g.db).db,
                         !.counter = checkCollectionsDB(g.books, device, g.db).counter,
                         !.err = checkCollectionsDB(g.books, device, g.db).err]
    /\ UNCHANGED <<osname, path, away, dir, books, undo, alive, steps, last, prev>>

\* menu choice 21
CleanCollectionsDB ==
    /\ g.op = "none"
    /\ \E device \in DevicePaths, replies \in BackupReplies :
          g' = [g EXCEPT !.op = "cleanCollectionsDB",
                         !.after = cleanCollectionsDB(g.books, device, replies, g.db).db,
                         !.backup = cleanCollectionsDB(g.books, device, replies, g.db).backup,
                         !.saved = cleanCollectionsDB(g.books, device, replies, g.db).saved,
                         !.counter = cleanCollectionsDB(g.books, device, replies, g.db).counter,
                         !.err = cleanCollectionsDB(g.books, device, replies, g.db).err]
    /\ UNCHANGED <<osname, path, away, dir, books, undo, alive, steps, last, prev>>

DeviceNext == CheckCollectionsDB \/ CleanCollectionsDB

SpecDevice == DeviceInit /\ [][DeviceNext]_vars

(***************************************************************************)
(* Properties of the session, checked under Spec.                          *)
(***************************************************************************)
\* the seven operations that rename files and write the ledger
Destructive ==
    {"removeMultipleSpacing", "fixCommaSpacing", "fixApostrophes",
     "withoutAuthors", "withAuthors", "restoreAuthors", "removeSubstring"}

\* the files of a directory, whatever their names
Files(d) == {d[n] : n \in DOMAIN d}

\* C1: a destructive operation followed at once by restore gives the directory
\* the filenames it had before the operation, and after an operation that
\* renamed one file A to B the restore reports a count of 1.
C1_UndoRoundTrip ==
    (last.op = "restoreOld" /\ prev.op \in Destructive) =>
        /\ DOMAIN dir = DOMAIN prev.dir
        /\ (Len(prev.renamed) = 1 /\ prev.renamed[1][1] # prev.renamed[1][2]) =>
              last.count = 1

\* C2: after a destructive operation the ledger holds only mappings of that
\* operation, whose old names are names of its working set, and it is empty
\* when the operation changed no file.
C2_LedgerSingleLevel ==
    (last.op \in Destructive /\ last.err = "none") =>
        /\ \A i \in DOMAIN undo : undo[i][2] \in Range(last.books)
        /\ dir = last.dir => undo = <<>>

\* C3: when a destructive operation ends, every ledger key is the current name
\* of a file the operation renamed away from the ledger value, and a file that
\* kept its name has no entry.
C3_LedgerOnlyAfterRename ==
    (last.op \in Destructive /\ last.err = "none") =>
        /\ \A i \in DOMAIN undo :
              /\ undo[i][1] # undo[i][2]
              /\ undo[i][1] \in DOMAIN dir
              /\ undo[i][2] \in DOMAIN last.dir
              /\ dir[undo[i][1]] = last.dir[undo[i][2]]
        /\ \A n \in DOMAIN dir \cap DOMAIN last.dir :
              dir[n] = last.dir[n] => \A i \in DOMAIN undo : undo[i][2] # n

\* C4: a destructive operation does not end on a rename target that exists: no
\* file is overwritten, and a file skipped on a conflict keeps its old name.
C4_ConflictKeepsBatchGoing ==
    last.op \in Destructive =>
        /\ last.err # "FileExistsError"
        /\ Files(dir) = Files(last.dir)
        /\ \A i \in DOMAIN last.kept :
              /\ last.kept[i] \in DOMAIN dir
              /\ dir[last.kept[i]] = last.dir[last.kept[i]]

\* C5: restore goes through every pair of the ledger: each pair is either
\* renamed or reported as not found, nothing stops the restore, and the count is
\* the number of pairs renamed.
C5_RestoreEveryPair ==
    last.op = "restoreOld" =>
        /\ last.err = "none"
        /\ last.count + Len(last.notfound) = Len(last.undo)
        /\ last.count = Len(last.renamed)

\* C6: restore leaves the ledger as it was, and a restore right after a restore
\* that renamed every pair reports every pair as not found, counts 0 and leaves
\* the directory unchanged.
C6_RestoreKeepsLedger ==
    last.op = "restoreOld" =>
        /\ undo = last.undo
        /\ (prev.op = "restoreOld" /\ prev.notfound = <<>>) =>
              /\ last.count = 0
              /\ Len(last.notfound) = Len(last.undo)
              /\ dir = last.dir

\* the working set of the last operation named files of its directory only
FreshBooks == Range(last.books) \subseteq DOMAIN last.dir

\* the file that was called old is now called new
NowNamed(old, new) == new \in DOMAIN dir /\ dir[new] = last.dir[old]

\* the ledger holds new -> old
Recorded(new, old) == \E i \in DOMAIN undo : undo[i] = <<new, old>>

\* a name with every run of two or more whitespace characters collapsed to one
\* space and, for .epub and .mobi, without the space right before the extension
SpacingCleaned(book) ==
    LET c == CollapseSpacing(book)
        d == LastDot(c)
    IN  IF /\ d > 1 /\ c[d - 1] = " "
           /\ From(c, d) \in {Epub, Mobi}
        THEN SubSeq(c, 1, d - 2) \o From(c, d)
        ELSE c

\* C13: the spacing pass completes, and every file of the working set ends up
\* with its runs of whitespace collapsed and the space before .epub or .mobi
\* removed, the ledger holding new -> old for each file so renamed.
C13_SpacingCleanupOnDisk ==
    (last.op = "removeMultipleSpacing" /\ FreshBooks) =>
        /\ last.err = "none"
        /\ \A b \in Range(last.books) :
              /\ NowNamed(b, SpacingCleaned(b))
              /\ SpacingCleaned(b) # b => Recorded(SpacingCleaned(b), b)

\* s from position i on, with one space put after each comma that is followed
\* by a character that is neither whitespace nor a digit
RECURSIVE SpacedCommasFrom(_, _)
SpacedCommasFrom(s, i) ==
    IF i > Len(s) THEN <<>>
    ELSE IF s[i] = "," /\ i < Len(s) /\ s[i + 1] \notin Whitespace \cup Digits
         THEN <<",", " ">> \o SpacedCommasFrom(s, i + 1)
         ELSE <<s[i]>> \o SpacedCommasFrom(s, i + 1)

\* s from position i on, without the whitespace that stands before a comma
RECURSIVE NoSpaceBeforeCommaFrom(_, _)
NoSpaceBeforeCommaFrom(s, i) ==
    IF i > Len(s) THEN <<>>
    ELSE IF s[i] \in Whitespace /\ SpaceRunEnd(s, i) <= Len(s)
            /\ s[SpaceRunEnd(s, i)] = ","
         THEN NoSpaceBeforeCommaFrom(s, SpaceRunEnd(s, i))
         ELSE <<s[i]>> \o NoSpaceBeforeCommaFrom(s, i + 1)

CommaCleaned(book) == SpacedCommasFrom(NoSpaceBeforeCommaFrom(book, 1), 1)

\* C14: the comma pass completes, and every file of the working set ends up
\* without whitespace before a comma and with one space after each comma that
\* was followed by a character other than a space or a digit.
C14_CommaCleanupOnDisk ==
    (last.op = "fixCommaSpacing" /\ FreshBooks) =>
        /\ last.err = "none"
        /\ \A b \in Range(last.books) : NowNamed(b, CommaCleaned(b))

\* C23: after restoreAuthors the count reported is the number of renames, each
\* rename is recorded in the ledger, no not-found line is printed for a renamed
\* target, and one is printed for every target that was not renamed.
C23_RestoreAuthorsReports ==
    (last.op = "restoreAuthors" /\ last.err = "none") =>
        /\ last.count = Len(last.renamed)
        /\ \A k \in DOMAIN last.renamed :
              /\ \E i \in DOMAIN undo :
                    undo[i] = <<last.renamed[k][2], last.renamed[k][1]>>
              /\ \A n \in DOMAIN last.notfound :
                    last.notfound[n] # last.renamed[k][1]
        /\ \A b \in DOMAIN last.books :
              (\A k \in DOMAIN last.renamed : last.renamed[k][1] # last.books[b])
                  => \E n \in DOMAIN last.notfound : last.notfound[n] = last.books[b]

\* C25: after any sequence of menu choices every name of the working set is the
\* name of a file of the directory, and a destructive operation run directly
\* after another destructive operation or after restore renames no file that is
\* gone and does not end the session.
C25_WorkingSetExists ==
    /\ \A i \in DOMAIN books : books[i] \in DOMAIN dir
    /\ (last.op \in Destructive /\ prev.op \in Destructive \cup {"restoreOld"}) =>
          (last.err # "FileNotFoundError" /\ alive)

(***************************************************************************)
(* Properties of the grammar functions, checked under SpecGrammar.         *)
(***************************************************************************)
SepLit == Lit(<<" ", "-", " ">>)

EnglishTokens == {EnglishArticles[k].art : k \in DOMAIN EnglishArticles}

\* the text of s before its first " - "
BeforeSep(s) == SubSeq(s, 1, FindPat(s, SepLit, 1) - 1)

StartsWith(s, lit) == MatchAt(s, 1, Lit(lit))

EndsWith(s, lit) == Len(s) >= Len(lit) /\ LastN(s, Len(lit)) = lit

\* the article art follows the first " - " of s
ArticleAfterSep(s, art) ==
    /\ FindPat(s, SepLit, 1) # 0
    /\ MatchAt(s, FindPat(s, SepLit, 1) + 3, Lit(art \o <<" ">>))

\* C7: strip-subtitle-only keeps the author segment verbatim: the text before the
\* first " - " of the result is the text before the first " - " of the name, and
\* a relocated article comes right after that separator.
C7_AuthorSegmentVerbatim ==
    g.op = "subtitle" =>
        /\ FindPat(g.once, SepLit, 1) # 0
        /\ BeforeSep(g.once) = BeforeSep(g.name)
        /\ g.article # <<>> => ArticleAfterSep(g.once, g.article)

PlainTitle(ti) ==
    /\ ~Search(ti, <<{"-"}, Whitespace>>)
    /\ \A art \in EnglishTokens : ~EndsWith(ti, <<",", " ">> \o art)

C9_EnglishArticleRelocated ==
    (g.subtitle # <<>> /\ g.article \in EnglishTokens) =>
        /\ g.op = "title" =>
              g.once = g.article \o <<" ">> \o g.title \o <<".">> \o g.ext
        /\ g.op = "subtitle" =>
              g.once = g.authors \o <<" ", "-", " ">> \o g.article \o <<" ">>
                           \o g.title \o <<".">> \o g.ext

\* the name ends in ", <Article>.<ext>"
TrailingArticle(s, art, ext) == EndsWith(s, <<",", " ">> \o art \o <<".">> \o ext)

C11_NoSeparatorPassThrough ==
    (/\ g.op \in {"title", "subtitle"}
     /\ FindPat(g.name, SepLit, 1) = 0
     /\ PlainTitle(g.title)
     /\ g.ext \in GExts) =>
        IF g.article = <<>>
        THEN g.once = g.title \o <<".">> \o g.ext
        ELSE g.once \in
                { g.article \o <<" ">> \o g.title \o <<".">> \o g.ext,
                  g.title \o <<",", " ">> \o g.article \o <<".">> \o g.ext }

\* the name x with ".kepub" put before its last ".epub"
Reattached(x) ==
    IF EndsWith(x, Epub) THEN DropLast(x, Len(Epub)) \o Kepub \o Epub ELSE x

\* C12: for a name <name>.kepub.epub both functions give what they give for
\* <name>.epub, with the marker put back: the result ends in .kepub.epub.
C12_KepubStrippedAndReattached ==
    g.ext = GKepubExt =>
        LET plain == GVariantName(g.authors, g.title, g.subtitle, g.article,
                                  <<"e", "p", "u", "b">>)
        IN  /\ g.op = "title" =>
                  /\ EndsWith(g.once, Kepub \o Epub)
                  /\ g.once = Reattached(StripToTitle(plain))
            /\ g.op = "subtitle" =>
                  /\ EndsWith(g.once, Kepub \o Epub)
                  /\ g.once = Reattached(StripSubtitleOnly(plain))

(***************************************************************************)
(* Properties of apostrophe repair, checked under SpecApostrophe.          *)
(***************************************************************************)
\* the underscore at position i of s stands between two letters
BetweenLetters(s, i) ==
    /\ s[i] = "_"
    /\ i > 1 /\ i < Len(s)
    /\ s[i - 1] \in Letters /\ s[i + 1] \in Letters

\* new is old with each underscore between two letters replaced by an
\* apostrophe and every other character as it was
IsRepairOf(new, old) ==
    /\ Len(new) = Len(old)
    /\ \A i \in 1..Len(old) :
          new[i] = IF BetweenLetters(old, i) THEN "'" ELSE old[i]

NeedsRepair(s) == \E i \in 1..Len(s) : BetweenLetters(s, i)

\* the last operation renamed old to new
Renamed(old, new) == \E i \in DOMAIN last.renamed : last.renamed[i] = <<old, new>>

\* C15: apostrophe repair renames a file only to its name with every underscore
\* between two letters replaced by an apostrophe and nothing else changed, the
\* name being one that changes; the ledger holds only such renames; and when the
\* pass completes every file of the working set whose name needs repair has been
\* renamed and recorded.
C15_ApostropheRepair ==
    last.op = "fixApostrophes" =>
        /\ \A i \in DOMAIN last.renamed :
              /\ last.renamed[i][1] \in Range(last.books)
              /\ last.renamed[i][1] # last.renamed[i][2]
              /\ IsRepairOf(last.renamed[i][2], last.renamed[i][1])
        /\ \A i \in DOMAIN undo :
              /\ undo[i][1] # undo[i][2]
              /\ Renamed(undo[i][2], undo[i][1])
        /\ (last.err = "none" /\ FreshBooks) =>
              \A b \in Range(last.books) :
                  NeedsRepair(b) =>
                      \E new \in DOMAIN dir :
                          /\ IsRepairOf(new, b)
                          /\ Renamed(b, new)
                          /\ Recorded(new, b)

\* a_b_c.pdf has become a'b'c.pdf and is the one entry of the ledger, while
\* "a_ b_1.epub" of the same working set kept its name
C15_Witness ==
    /\ last.op = "fixApostrophes"
    /\ last.err = "none"
    /\ <<"a", "_", " ", "b", "_", "1", ".", "e", "p", "u", "b">> \in Range(last.books)
    /\ <<"a", "_", " ", "b", "_", "1", ".", "e", "p", "u", "b">> \in DOMAIN dir
    /\ undo = << << <<"a", "'", "b", "'", "c", ".", "p", "d", "f">>,
                    <<"a", "_", "b", "_", "c", ".", "p", "d", "f">> >> >>
    /\ <<"a", "'", "b", "'", "c", ".", "p", "d", "f">> \in DOMAIN dir

(***************************************************************************)
(* Properties of the cleanup transformations, checked under SpecCleanup.   *)
(***************************************************************************)
\* C16: each cleanup pass applied to its own output changes nothing.
C16_CleanupIdempotent ==
    g.op \in {"spacing2", "comma2", "apostrophe2"} => g.twice = g.once

(***************************************************************************)
(* Properties of the matchers, checked under SpecMatch.                    *)
(***************************************************************************)
\* C17: in both matchers the list similar holds no pair of two equal base names:
\* each of its pairs has a ratio of at least 0.9 and below 1.0.
C17_IdenticalNeverSimilar ==
    g.op \in {"compareWithinDir", "compareTwoDirs"} =>
        \A k \in DOMAIN g.similar :
            /\ g.similar[k][1] # g.similar[k][2]
            /\ RatioAtLeastNineTenths(g.similar[k][1], g.similar[k][2])
            /\ ~RatioIsOne(g.similar[k][1], g.similar[k][2])

\* C21: in compareTwoDirs a book of directory 1 is listed as identical only if
\* directory 2 holds a book with exactly the same base name; two different base
\* names, also of the same characters in another order, are never identical.
C21_IdenticalOnlyEqualBaseNames ==
    g.op = "compareTwoDirs" =>
        \A k \in DOMAIN g.identical :
            \E j \in DOMAIN g.books2 :
                IsBookName(g.books2[j]) /\ BaseName(g.books2[j]) = g.identical[k]

(***************************************************************************)
(* Properties of the comparison of sizes, checked under SpecSize.          *)
(***************************************************************************)
\* the comparison ran to its report with share num / den
SizeReport == g.op = "compareSize" /\ g.err = "none"

\* the line of the report for the k-th matched pair
SizeLine(k) ==
    <<g.size1[g.matched[k][1]], g.size2[g.matched[k][2]], BaseName(g.matched[k][1])>>

IsReported(k) == \E i \in DOMAIN g.identical : g.identical[i] = SizeLine(k)

\* C18: at threshold 1 the size comparator reports no pair, whatever the sizes
\* of the two files.
C18_ThresholdOneReportsNone ==
    (SizeReport /\ g.num = g.den) => g.identical = <<>>

\* the listing of directory 2 holds books only, in the order of their base
\* names without case
SortedBooks2 ==
    /\ \A j \in DOMAIN g.books2 : IsBookName(g.books2[j])
    /\ \A i, j \in DOMAIN g.books2 :
          i < j => StrLess(Lower(BaseName(g.books2[i])), Lower(BaseName(g.books2[j])))

\* C22: over a name-sorted listing of books of directory 2, whatever its length,
\* the search for each base name of directory 1 ends without error, and sizes
\* are compared exactly for the books of directory 1 for which directory 2 holds
\* a book of the same base name without case.
C22_BinarySearchTotal ==
    (g.op = "compareSize" /\ g.err # "ValueError" /\ SortedBooks2) =>
        /\ g.err = "none"
        /\ \A i \in DOMAIN g.books :
              IsBookName(g.books[i]) =>
                  ((\E k \in DOMAIN g.matched : g.matched[k][1] = g.books[i])
                   <=> (\E j \in DOMAIN g.books2 :
                           Lower(BaseName(g.books2[j])) = Lower(BaseName(g.books[i]))))

(***************************************************************************)
(* Properties of the prompts, checked under SpecInput.                     *)
(***************************************************************************)
\* the last choice was 2 and selectBooks returned
Selected == g.op = "selectBooks" /\ g.err = "none"

\* the 1-based positions the accepted expression names
NamedPositions == {m + 1 : m \in Numbers(g.selections[g.asked]).numbers}

\* C19: selection over the sorted list of n items returns exactly the items at
\* the 1-based positions the expression names, each item once however often its
\* position is named, and every returned item comes from a named position in
\* 1..n.
C19_SelectionByNamedPositions ==
    Selected =>
        LET n == Len(g.result)
            named == NamedPositions \cap (1..n)
        IN  /\ {books[i] : i \in DOMAIN books} = {g.result[p] : p \in named}
            /\ Len(books) = Cardinality(named)
            /\ \A i \in DOMAIN books : \E p \in named : g.result[p] = books[i]

\* the last choice asked for a selection and an expression typed was rejected
SelectionRejected == g.op = "selectBooks" /\ g.asked >= 2

\* the last choice asked for the share and a reply typed was no number
ShareNotNumeric ==
    g.op = "compareSize" /\ \E k \in 1..g.asked : ~ParseFloat(g.replies[k]).ok

\* the last choice was none of the menu
ChoiceRejected == g.op = "menu"

\* the session goes on with the ledger it had and with working set ws
GoesOnWith(ws) ==
    alive /\ books = ws /\ undo = <<>>

\* C20: a malformed selection expression, a non-numeric size threshold and an
\* invalid menu choice are each recovered by asking for the same input again:
\* the error does not leave the operation that asked, the session does not end,
\* and the rejected input changes neither the working set nor the ledger.
C20_InputErrorsRecoveredLocally ==
    /\ SelectionRejected =>
          /\ g.err = "none"
          /\ GoesOnWith(selectBooks(g.before, g.sortings, <<g.selections[g.asked]>>,
                                    dir.mtime, dir.size).books)
    /\ ShareNotNumeric => (g.err = "none" /\ GoesOnWith(g.before))
    /\ ChoiceRejected => GoesOnWith(g.before)

(***************************************************************************)
(* Properties of the device store, checked under SpecDevice.               *)
(***************************************************************************)
\* the filenames of the working set
OnDevice == {g.books[i] : i \in DOMAIN g.books}

\* the last segment of the path id
LastSegment(id) ==
    LET slashes == {i \in DOMAIN id : id[i] = "/"}
    IN  IF slashes = {} THEN id
        ELSE From(id, (CHOOSE i \in slashes : \A j \in slashes : j <= i) + 1)

\* the rows of the table before the operation whose file is on the device
RowsOnDevice == SelectSeq(g.db, LAMBDA row : LastSegment(row[2]) \in OnDevice)

\* C24: cleanCollectionsDB deletes a row exactly when the last path segment of
\* its content identifier is absent from the sorted filename list; binarySearch
\* over the sorted list, whatever its length, returns the item if and only if
\* it is in the list; no row whose file is on the device is deleted, and
\* checkCollectionsDB deletes nothing.
C24_CleanupDeletesExactlyAbsent ==
    /\ (g.op = "cleanCollectionsDB" /\ g.err = "none") =>
          /\ g.after = RowsOnDevice
          /\ g.counter = Len(g.db) - Len(RowsOnDevice)
    /\ g.op = "checkCollectionsDB" =>
          /\ g.after = g.db
          /\ g.err = "none" => g.counter = Len(g.db) - Len(RowsOnDevice)
    /\ g.op # "none" =>
          \A item \in DevicePool \cup {LastSegment(row[2]) : row \in RowPool} :
              /\ binarySearch(Sorted(g.books), item).ret = "item" <=> item \in OnDevice
              /\ binarySearch(Sorted(g.books), item).ret = "item" =>
                    binarySearch(Sorted(g.books), item).item = item

\* a cleanup over a list of several filenames that deleted a row and kept the
\* row of the greatest filename of the list
C24_Witness ==
    /\ g.op = "cleanCollectionsDB" /\ g.err = "none"
    /\ Len(g.books) >= 2
    /\ Len(g.after) < Len(g.db)
    /\ \E k \in DOMAIN g.after :
          LastSegment(g.after[k][2]) = Sorted(g.books)[Len(g.books)]

=============================================================================
